---- MODULE Spec2Model ----
(***************************************************************************)
(* Aggregate operations of libnd4j (include/aggregate_ops.h): the gradient *)
(* kernels HierarchicSoftmax and NegativeSampling and the orchestrators    *)
(* SkipGram and CBOW, on the sequential path (executeAggregate) and on the *)
(* cooperative path (executeAggregateCuda, one block of blockDim lanes).   *)
(*                                                                         *)
(* Numbers.  The element type T is modelled as decimal fixed point: an     *)
(* integer v stands for the real v / Scale.  A product or a quotient is    *)
(* rounded to the nearest representable value, as T rounds; sums are       *)
(* exact.  unsigned long long is modelled at its full width of 64 bits,    *)
(* as eight base-256 limbs, least significant first.                       *)
(***************************************************************************)
EXTENDS Integers, Sequences, FiniteSets, TLC

\* ------------------------------------------------------------------ bounds
\* Largest vectorLength of the kernel inputs and of the matrices' rows.
MaxVecLen == 2
\* expLength, the length of expTable.
ExpLength == 2
\* vocabSize, the number of rows of syn0, syn1 and syn1Neg.
MaxVocab == 3
\* Largest hsRounds and ngRounds.
MaxHsRounds == 2
MaxNgRounds == 2
\* negTableLength.
NegTableLen == 2
\* Largest idxSyn0Length, the size of CBOW's context window.
MaxCtx == 2
\* blockDim.x is at most MaxLanes, blockIdx.x at most MaxBlockIdx.
MaxLanes == 2
MaxBlockIdx == 1
\* Largest vectorLength of a Dot or Axpy call.
MaxDotLen == 4

\* ------------------------------------------------------- the element type T
\* Two decimal digits: 1.0 is Scale units.
Scale == 10 * 10

\* #define HS_MAX_EXP 6.0f
HS_MAX_EXP == 6 * Scale

Abs(a) == IF a < 0 THEN -a ELSE a

Sgn(a) == IF a < 0 THEN -1 ELSE 1

\* n / d rounded to the nearest integer, halves away from zero (d # 0).
RoundDiv(n, d) == Sgn(n) * Sgn(d) * ((2 * Abs(n) + Abs(d)) \div (2 * Abs(d)))

\* a * b in T.
Mul(a, b) == RoundDiv(a * b, Scale)

\* a / b in T.
Div(a, b) == RoundDiv(a * Scale, b)

\* (T) i for an int i.
FromInt(i) == i * Scale

\* (int) a for a T a: truncation toward zero.
ToInt(a) == Sgn(a) * (Abs(a) \div Scale)

\* A vector of length n is a function on 0..n-1.
Idx(n) == 0 .. (n - 1)

ZeroVec(n) == [x \in Idx(n) |-> 0]

\* ---------------------------------------------------------------- kernels
\* for (x = 0; x < vectorLength; x++) dot += a[x] * b[x];
RECURSIVE DotLoop(_, _, _)
DotLoop(a, b, n) ==
  IF n = 0 THEN 0 ELSE DotLoop(a, b, n - 1) + Mul(a[n - 1], b[n - 1])

\* for (x = 0; x < vectorLength; x++) y[x] = g * x_[x] + y[x];
AxpyLoop(g, xs, ys, n) ==
  [x \in DOMAIN ys |-> IF x < n THEN Mul(g, xs[x]) + ys[x] ELSE ys[x]]

\* The cooperative dot: lane t adds the products of the indices t, t+blockDim,
\* ... to the shared dot with atomicAdd; after the barrier dot holds them all.
RECURSIVE LaneDot(_, _, _, _, _)
LaneDot(a, b, n, x, blockDim) ==
  IF x >= n THEN 0 ELSE Mul(a[x], b[x]) + LaneDot(a, b, n, x + blockDim, blockDim)

RECURSIVE DotCuda(_, _, _, _, _)
DotCuda(a, b, n, lanes, blockDim) ==
  IF lanes = 0 THEN 0
  ELSE DotCuda(a, b, n, lanes - 1, blockDim) + LaneDot(a, b, n, lanes - 1, blockDim)

\* (int) ((dot + HS_MAX_EXP) * ((T) expLength / HS_MAX_EXP / 2.0))
ExpIdx(dot, expLength) ==
  ToInt(Mul(dot + HS_MAX_EXP, Div(Div(FromInt(expLength), HS_MAX_EXP), FromInt(2))))

\* What a kernel call leaves behind: the buffers it reaches through
\* arguments[0] (emb), arguments[1] (row) and arguments[3] (neu1e), and the
\* set of indices at which it read expTable.
KernelOut(emb, row, neu1e, expRead) ==
  [emb |-> emb, row |-> row, neu1e |-> neu1e, expRead |-> expRead]

\* Mutant: the test dot < -HS_MAX_EXP is left out.
HierarchicSoftmaxNoLowerBound(syn0, syn1, expTable, neu1e, vectorLength, expLength, code, alpha) ==
  LET dot == DotLoop(syn0, syn1, vectorLength)
      idx == ExpIdx(dot, expLength)
      f == expTable[idx]
      g == Mul(FromInt(1 - code) - f, alpha)
  IN  IF dot >= HS_MAX_EXP
        THEN KernelOut(syn0, syn1, neu1e, {})
      ELSE IF idx >= expLength
        THEN KernelOut(syn0, syn1, neu1e, {})
      ELSE KernelOut(syn0,
                     AxpyLoop(g, syn0, syn1, vectorLength),
                     AxpyLoop(g, syn1, neu1e, vectorLength),
                     {idx})

\* Mutant: the two axpy loops in the other order, so that neu1e receives the
\* row as already updated.
HierarchicSoftmaxRowFirst(syn0, syn1, expTable, neu1e, vectorLength, expLength, code, alpha) ==
  LET dot == DotLoop(syn0, syn1, vectorLength)
      idx == ExpIdx(dot, expLength)
      f == expTable[idx]
      g == Mul(FromInt(1 - code) - f, alpha)
      updated == AxpyLoop(g, syn0, syn1, vectorLength)
  IN  IF dot < -HS_MAX_EXP \/ dot >= HS_MAX_EXP
        THEN KernelOut(syn0, syn1, neu1e, {})
      ELSE IF idx >= expLength
        THEN KernelOut(syn0, syn1, neu1e, {})
      ELSE KernelOut(syn0, updated, AxpyLoop(g, updated, neu1e, vectorLength), {idx})

\* HierarchicSoftmax<T>::executeAggregate
HierarchicSoftmax(syn0, syn1, expTable, neu1e, vectorLength, expLength, code, alpha) ==
  LET dot == DotLoop(syn0, syn1, vectorLength)
      idx == ExpIdx(dot, expLength)
      f == expTable[idx]
      g == Mul(FromInt(1 - code) - f, alpha)
  IN  IF dot < -HS_MAX_EXP \/ dot >= HS_MAX_EXP
        THEN KernelOut(syn0, syn1, neu1e, {})
      ELSE IF idx >= expLength
        THEN KernelOut(syn0, syn1, neu1e, {})
      ELSE KernelOut(syn0,
                     AxpyLoop(g, syn0, syn1, vectorLength),
                     AxpyLoop(g, syn1, neu1e, vectorLength),
                     {idx})

\* HierarchicSoftmax<T>::executeAggregateCuda
HierarchicSoftmaxCuda(syn0, syn1, expTable, neu1e, vectorLength, expLength, code, alpha, blockDim) ==
  LET dot == DotCuda(syn0, syn1, vectorLength, blockDim, blockDim)
      idx == ExpIdx(dot, expLength)
      f == expTable[idx]
      g == Mul(FromInt(1) - FromInt(code) - f, alpha)
  IN  IF dot < -HS_MAX_EXP \/ dot >= HS_MAX_EXP
        THEN KernelOut(syn0, syn1, neu1e, {})
      ELSE IF idx >= expLength
        THEN KernelOut(syn0, syn1, neu1e, {})
      ELSE KernelOut(syn0,
                     AxpyLoop(g, syn0, syn1, vectorLength),
                     AxpyLoop(g, syn1, neu1e, vectorLength),
                     {idx})

\* Mutant: the first case is dot >= HS_MAX_EXP.
NegativeSamplingSaturatesAtBound(syn0, syn1Neg, expTable, neu1e, vectorLength, expLength, code, alpha) ==
  LET dot == DotLoop(syn0, syn1Neg, vectorLength)
      idx == ExpIdx(dot, expLength)
      mid == ~(dot >= HS_MAX_EXP) /\ ~(dot < -HS_MAX_EXP)
      g == IF dot >= HS_MAX_EXP THEN Mul(FromInt(code - 1), alpha)
           ELSE IF dot < -HS_MAX_EXP THEN Mul(FromInt(code - 0), alpha)
           ELSE Mul(FromInt(code) - expTable[idx], alpha)
  IN  IF mid /\ idx >= expLength
        THEN KernelOut(syn0, syn1Neg, neu1e, {})
      ELSE KernelOut(syn0,
                     AxpyLoop(g, syn0, syn1Neg, vectorLength),
                     AxpyLoop(g, syn1Neg, neu1e, vectorLength),
                     IF mid THEN {idx} ELSE {})

\* Mutant: the first axpy loop adds into the embedding row instead of neu1e.
NegativeSamplingIntoEmbedding(syn0, syn1Neg, expTable, neu1e, vectorLength, expLength, code, alpha) ==
  LET dot == DotLoop(syn0, syn1Neg, vectorLength)
      idx == ExpIdx(dot, expLength)
      mid == ~(dot > HS_MAX_EXP) /\ ~(dot < -HS_MAX_EXP)
      g == IF dot > HS_MAX_EXP THEN Mul(FromInt(code - 1), alpha)
           ELSE IF dot < -HS_MAX_EXP THEN Mul(FromInt(code - 0), alpha)
           ELSE Mul(FromInt(code) - expTable[idx], alpha)
  IN  IF mid /\ idx >= expLength
        THEN KernelOut(syn0, syn1Neg, neu1e, {})
      ELSE KernelOut(AxpyLoop(g, syn1Neg, syn0, vectorLength),
                     AxpyLoop(g, syn0, syn1Neg, vectorLength),
                     neu1e,
                     IF mid THEN {idx} ELSE {})

\* NegativeSampling<T>::executeAggregate
NegativeSampling(syn0, syn1Neg, expTable, neu1e, vectorLength, expLength, code, alpha) ==
  LET dot == DotLoop(syn0, syn1Neg, vectorLength)
      idx == ExpIdx(dot, expLength)
      mid == ~(dot > HS_MAX_EXP) /\ ~(dot < -HS_MAX_EXP)
      g == IF dot > HS_MAX_EXP THEN Mul(FromInt(code - 1), alpha)
           ELSE IF dot < -HS_MAX_EXP THEN Mul(FromInt(code - 0), alpha)
           ELSE Mul(FromInt(code) - expTable[idx], alpha)
  IN  IF mid /\ idx >= expLength
        THEN KernelOut(syn0, syn1Neg, neu1e, {})
      ELSE KernelOut(syn0,
                     AxpyLoop(g, syn0, syn1Neg, vectorLength),
                     AxpyLoop(g, syn1Neg, neu1e, vectorLength),
                     IF mid THEN {idx} ELSE {})

\* NegativeSampling<T>::executeAggregateCuda
NegativeSamplingCuda(syn0, syn1Neg, expTable, neu1e, vectorLength, expLength, code, alpha, blockDim) ==
  LET dot == DotCuda(syn0, syn1Neg, vectorLength, blockDim, blockDim)
      idx == ExpIdx(dot, expLength)
      g == IF dot > HS_MAX_EXP THEN Mul(FromInt(code - 1), alpha)
           ELSE IF dot < -HS_MAX_EXP THEN Mul(FromInt(code - 0), alpha)
           ELSE Mul(FromInt(code) - expTable[idx], alpha)
  IN  IF idx >= expLength /\ dot <= HS_MAX_EXP /\ dot >= -HS_MAX_EXP
        THEN KernelOut(syn0, syn1Neg, neu1e, {})
      ELSE KernelOut(syn0,
                     AxpyLoop(g, syn0, syn1Neg, vectorLength),
                     AxpyLoop(g, syn1Neg, neu1e, vectorLength),
                     IF dot > HS_MAX_EXP \/ dot < -HS_MAX_EXP THEN {} ELSE {idx})


\* ---------------------------------------------------- unsigned long long
Limbs == 0 .. 7

\* The unsigned long long of value n, 0 <= n < 2^31.
U64(n) == [i \in Limbs |-> IF i < 4 THEN (n \div (256 ^ i)) % 256 ELSE 0]

\* (unsigned long long) 25214903917 = 0x5DEECE66D
LcgMultiplier == [i \in Limbs |-> <<109, 230, 236, 222, 5, 0, 0, 0>>[i + 1]]

RECURSIVE Column(_, _, _, _)
Column(a, m, k, i) ==
  IF i > k THEN 0 ELSE a[i] * m[k - i] + Column(a, m, k, i + 1)

RECURSIVE Carry(_, _, _, _)
Carry(a, m, c, k) ==
  IF k = 0 THEN c ELSE (Column(a, m, k - 1, 0) + Carry(a, m, c, k - 1)) \div 256

\* a * m + c modulo 2^64, c a small natural number.
U64MulAdd(a, m, c) ==
  [k \in Limbs |-> (Column(a, m, k, 0) + Carry(a, m, c, k)) % 256]

\* The limbs of a from the most significant down to limb lo, modulo n (n > 0).
RECURSIVE U64ModFrom(_, _, _)
U64ModFrom(a, n, i) ==
  IF i > 7 THEN 0 ELSE (U64ModFrom(a, n, i + 1) * 256 + a[i]) % n

\* a % n
U64Mod(a, n) == U64ModFrom(a, n, 0)

\* (a >> 16) % n
U64Shr16Mod(a, n) == U64ModFrom(a, n, 2)

\* Mutant: the step without its increment.
NextRandomNoIncrement(next_random) == U64MulAdd(next_random, LcgMultiplier, 0)

\* next_random = next_random * (unsigned long long) 25214903917 + 11;
NextRandom(next_random) == U64MulAdd(next_random, LcgMultiplier, 11)

\* target = negTable[(next_random >> 16) % negTableLength];
\* if (target <= 0 || target >= vocabSize) target = next_random % (vocabSize - 1) + 1;
DrawTarget(next_random, negTable, negTableLength, vocabSize) ==
  LET target == ToInt(negTable[U64Shr16Mod(next_random, negTableLength)])
  IN  IF target <= 0 \/ target >= vocabSize
        THEN U64Mod(next_random, vocabSize - 1) + 1
        ELSE target

\* The replacement of an invalid draw divides by zero: vocabSize - 1 = 0.
DividesByZero(next_random, negTable, negTableLength, vocabSize) ==
  LET target == ToInt(negTable[U64Shr16Mod(next_random, negTableLength)])
  IN  (target <= 0 \/ target >= vocabSize) /\ vocabSize - 1 = 0

\* What next_random % 0 may leave in target: the behaviour is undefined, the
\* division traps or yields some value.
GarbageTargets == {-1, 0, 1}

\* The outcomes of the draw of a round.
DrawOutcomes(next_random, negTable, negTableLength, vocabSize) ==
  IF DividesByZero(next_random, negTable, negTableLength, vocabSize)
    THEN {[trap |-> TRUE, target |-> 0]} \cup
         {[trap |-> FALSE, target |-> g] : g \in GarbageTargets}
    ELSE {[trap |-> FALSE,
           target |-> DrawTarget(next_random, negTable, negTableLength, vocabSize)]}


\* ----------------------------------------------------------------- state
\* kin, kout: the arguments and the result of one kernel call on its own.
\* arg: the arguments of one SkipGram or CBOW invocation, as the caller set
\*   them (arg.syn0, arg.syn1, arg.syn1Neg are the matrices before the call).
\* seq: the sequential invocation (executeAggregate) on those arguments: its
\*   position, the matrices as it has left them, its locals, and a record of
\*   what it has done (calls, draws, divisors, heap).
\* cuda: the cooperative invocation (executeAggregateCuda) on the same
\*   arguments, on its own copy of the matrices, by one block of cuda.blockDim
\*   lanes with block index cuda.blockIdx; cuda.lane[t] is lane t's position in
\*   the negative sampling loop.
\* vec: one call of Dot or of Axpy on its own, on either path: the buffers,
\*   the shared accumulator, each lane's position, and a record of what the
\*   lanes have added and stored.
\* pair: two sequential SkipGram invocations run by two threads at once on
\*   the same matrices: the matrices, each invocation's arguments, locals and
\*   neu1e buffer, and the rows of syn1 and syn1Neg it has touched.
VARIABLES kin, kout, arg, seq, cuda, vec, pair

vars == <<kin, kout, arg, seq, cuda, vec, pair>>

Rows == 0 .. (MaxVocab - 1)

\* ------------------------------------------------- one kernel call alone
KernelNames ==
  {"HierarchicSoftmax", "HierarchicSoftmaxCuda", "NegativeSampling", "NegativeSamplingCuda"}

\* Values of the elements of arguments[0] and arguments[1].
EmbVals == {-3 * Scale, 0, 240, 3 * Scale}
RowVals == {Scale, 2 * Scale, 240}

\* expTable as the caller builds it: bucket i holds the sigmoid at the
\* bucket's lower edge (0 at -6, 1/2 at 0); and a second, coarser table.
SigmoidTable == [i \in Idx(ExpLength) |-> (i * Scale) \div ExpLength]
OtherTable == [i \in Idx(ExpLength) |-> ((2 * i + 1) * Scale) \div (2 * ExpLength)]
ExpTables == {SigmoidTable, OtherTable}

Alphas == {Scale \div 10, Scale}

\* neu1e as earlier rounds may have left it.
Neu1eOf(n) == [x \in Idx(n) |-> 7 * (x + 1)]

\* The end-to-end scenario: vectorLength 4, syn0 row [1,0,0,0], syn1 row
\* [0,1,0,0], expTable with f = 0.5 at dot = 0, code 1, alpha 0.1.
ScenarioIn ==
  [kernel |-> "HierarchicSoftmax", blockDim |-> 1, vectorLength |-> 4,
   expLength |-> 2, code |-> 1, alpha |-> 10,
   emb |-> [x \in Idx(4) |-> IF x = 0 THEN 100 ELSE 0],
   row |-> [x \in Idx(4) |-> IF x = 1 THEN 100 ELSE 0],
   expTable |-> [i \in Idx(2) |-> 50 * i],
   neu1e |-> ZeroVec(4)]

KernelInputs ==
  {ScenarioIn} \cup
  { k \in UNION { [kernel : KernelNames, blockDim : 1 .. MaxLanes, vectorLength : {n},
                   expLength : {ExpLength}, code : {0, 1}, alpha : Alphas,
                   emb : [Idx(n) -> EmbVals], row : [Idx(n) -> RowVals],
                   expTable : ExpTables, neu1e : {Neu1eOf(n)}] : n \in 1 .. MaxVecLen } :
      k.kernel \in {"HierarchicSoftmax", "NegativeSampling"} => k.blockDim = 1 }

NoCall == [emb |-> <<>>, row |-> <<>>, neu1e |-> <<>>, expRead |-> {}, done |-> FALSE]

Returned(out) ==
  [emb |-> out.emb, row |-> out.row, neu1e |-> out.neu1e, expRead |-> out.expRead,
   done |-> TRUE]

\* The sequential kernels are called by one thread.
CallHierarchicSoftmax ==
  /\ kin.kernel = "HierarchicSoftmax" /\ ~kout.done /\ kin.blockDim = 1
  /\ kout' = Returned(HierarchicSoftmax(kin.emb, kin.row, kin.expTable, kin.neu1e,
                        kin.vectorLength, kin.expLength, kin.code, kin.alpha))
  /\ UNCHANGED <<kin, arg, seq, cuda, vec, pair>>

CallHierarchicSoftmaxCuda ==
  /\ kin.kernel = "HierarchicSoftmaxCuda" /\ ~kout.done
  /\ kout' = Returned(HierarchicSoftmaxCuda(kin.emb, kin.row, kin.expTable, kin.neu1e,
                        kin.vectorLength, kin.expLength, kin.code, kin.alpha, kin.blockDim))
  /\ UNCHANGED <<kin, arg, seq, cuda, vec, pair>>

CallNegativeSampling ==
  /\ kin.kernel = "NegativeSampling" /\ ~kout.done /\ kin.blockDim = 1
  /\ kout' = Returned(NegativeSampling(kin.emb, kin.row, kin.expTable, kin.neu1e,
                        kin.vectorLength, kin.expLength, kin.code, kin.alpha))
  /\ UNCHANGED <<kin, arg, seq, cuda, vec, pair>>

CallNegativeSamplingCuda ==
  /\ kin.kernel = "NegativeSamplingCuda" /\ ~kout.done
  /\ kout' = Returned(NegativeSamplingCuda(kin.emb, kin.row, kin.expTable, kin.neu1e,
                        kin.vectorLength, kin.expLength, kin.code, kin.alpha, kin.blockDim))
  /\ UNCHANGED <<kin, arg, seq, cuda, vec, pair>>


\* ------------------------------------------- the orchestrators' arguments
\* The matrices the caller hands over: MaxVocab rows of MaxVecLen elements.
Matrix(vals, sign) ==
  [w \in Rows |-> [x \in Idx(MaxVecLen) |->
     sign * vals[((w * MaxVecLen + x) % Len(vals)) + 1]]]

Syn0Vals == <<100, 0, 300, 100, 240, 0>>
Syn1Vals == <<0, 100, 200, 0, 240, 50>>
Syn1NegVals == <<-200, 0, 240, 10, 100, 100>>

\* Elements of negTable: 0 and MaxVocab are invalid draws, 2.5 converts to 2.
NegVals == <<0, Scale, (5 * Scale) \div 2, MaxVocab * Scale>>

\* negTable: one value throughout (step 0), or successive values (step 1).
NegTableFrom(k, step) ==
  [i \in Idx(NegTableLen) |-> NegVals[((k + i * step) % Len(NegVals)) + 1]]

NegTables ==
  {NegTableFrom(k, 0) : k \in 0 .. 3} \cup {NegTableFrom(0, 1), NegTableFrom(2, 1)}

\* realArguments[1], the seed.
Seeds == {0, (3 * Scale) \div 2}

\* realArguments[0], the learning rate.
LearningRate == Scale \div 4

\* idxSyn1 and codes, one entry per hierarchic softmax round.
IdxSyn1From(h) == [r \in Idx(MaxHsRounds) |-> (h + r) % MaxVocab]
CodesFrom(b) == [r \in Idx(MaxHsRounds) |-> (b + r) % 2]

\* idxSyn0, the rows of CBOW's context window (with step 0 a row is listed
\* more than once).
IdxSyn0From(n, b, step) == [c \in Idx(n) |-> (b + c * step) % MaxVocab]

\* The round descriptors: the arguments a loop that is not entered never
\* reads are held at one value.
HsArgs ==
  {[hsRounds |-> 0, idxSyn1 |-> IdxSyn1From(0), codes |-> CodesFrom(0)]} \cup
  {[hsRounds |-> 1, idxSyn1 |-> IdxSyn1From(hb[1]), codes |-> CodesFrom(hb[2])] :
     hb \in {<<1, 0>>, <<1, 1>>, <<2, 1>>}} \cup
  {[hsRounds |-> n, idxSyn1 |-> IdxSyn1From(1), codes |-> CodesFrom(0)] :
     n \in 2 .. MaxHsRounds}

NgArgs ==
  {[ngRounds |-> 0, ngStarter |-> 0, seed |-> 0, negTable |-> NegTableFrom(0, 0)]} \cup
  {[ngRounds |-> n, ngStarter |-> w, seed |-> sd, negTable |-> t] :
     n \in 1 .. MaxNgRounds, w \in Rows, sd \in Seeds, t \in NegTables}

\* SkipGram's center word, or CBOW's context window.
WordArgs(op) ==
  IF op = "SkipGram"
    THEN {[syn0Row |-> w, idxSyn0Length |-> 0, idxSyn0 |-> IdxSyn0From(0, 0, 0)] : w \in Rows}
    ELSE {[syn0Row |-> 0, idxSyn0Length |-> n, idxSyn0 |-> IdxSyn0From(n, b, st)] :
            n \in 0 .. MaxCtx, b \in {0, 1}, st \in {0, 1}}

Invocation(op, w, hs, ng) ==
  [op |-> op, syn0Row |-> w.syn0Row, vectorLength |-> MaxVecLen,
   hsRounds |-> hs.hsRounds, ngRounds |-> ng.ngRounds,
   expLength |-> ExpLength, vocabSize |-> MaxVocab, ngStarter |-> ng.ngStarter,
   negTableLength |-> NegTableLen, idxSyn0Length |-> w.idxSyn0Length,
   idxSyn0 |-> w.idxSyn0, idxSyn1 |-> hs.idxSyn1, codes |-> hs.codes,
   alpha |-> LearningRate, seed |-> ng.seed,
   expTable |-> SigmoidTable, negTable |-> ng.negTable,
   syn0 |-> Matrix(Syn0Vals, 1), syn1 |-> Matrix(Syn1Vals, 1),
   syn1Neg |-> Matrix(Syn1NegVals, 1)]

NoInvocation == [op |-> "none"]

\* Mutant: the collision test never fires.
CollidesNever(target, ngStarter) == FALSE

\* if (target == ngStarter) continue;
Collides(target, ngStarter) == target = ngStarter

\* ------------------------------------------------ the sequential invocation
\* Mutant: new T[n] without the memset.
NewUninitialized(n) == [x \in Idx(n) |-> 7]

\* new T[n] followed by memset(.., 0, ..)
NewZeroed(n) == ZeroVec(n)

\* (unsigned long long) realArguments[1]
ToU64(seed) == U64(ToInt(seed))

\* a[x] += b[x] for x < n
AddInto(a, b, n) == [x \in DOMAIN a |-> IF x < n THEN a[x] + b[x] ELSE a[x]]

SeqIdle ==
  [pc |-> "idle", syn0 |-> <<>>, syn1 |-> <<>>, syn1Neg |-> <<>>,
   neu1 |-> <<>>, neu1e |-> <<>>, next_random |-> U64(0),
   r |-> 0, c |-> 0, target |-> 0, args1 |-> <<"syn1", 0>>, code |-> 0,
   heap |-> {}, divisors |-> {}, calls |-> <<>>, draws |-> <<>>]

SeqStart(a) ==
  [SeqIdle EXCEPT !.pc = "start", !.syn0 = a.syn0, !.syn1 = a.syn1, !.syn1Neg = a.syn1Neg,
                  !.neu1 = ZeroVec(a.vectorLength), !.neu1e = ZeroVec(a.vectorLength)]

CudaIdle ==
  [pc |-> "idle", blockDim |-> 1, blockIdx |-> 0,
   syn0 |-> <<>>, syn1 |-> <<>>, syn1Neg |-> <<>>,
   neu1 |-> <<>>, neu1e |-> <<>>, next_random |-> U64(0),
   r |-> 0, target |-> 0, args1 |-> <<"syn1", 0>>, code |-> 0,
   lane |-> <<>>, divisors |-> {}, calls |-> <<>>, draws |-> <<>>]

VecIdle == [op |-> "none"]

PairIdle == [on |-> FALSE]

\* One entry of seq.calls: the kernel called in round r of its loop, the row
\* args[1] pointed at, and idxArgs[2].
Call(kernel, r, args1, code, out) ==
  [kernel |-> kernel, r |-> r, mat |-> args1[1], row |-> args1[2], code |-> code,
   expRead |-> out.expRead]


\* -------------------------------------------- SkipGram<T>::executeAggregate
\* Lines 383-415: the locals, neu1e, args and idxArgs.
SkipGramBegin ==
  /\ arg.op = "SkipGram" /\ seq.pc = "start"
  /\ seq' = [seq EXCEPT !.pc = "hs",
                        !.neu1e = NewZeroed(arg.vectorLength),
                        !.args1 = <<"syn1", 0>>,
                        !.next_random = ToU64(arg.seed),
                        !.r = 0,
                        !.heap = {"neu1e", "args", "idxArgs"}]
  /\ UNCHANGED <<kin, kout, arg, cuda, vec, pair>>

\* Lines 417-425: one round of the hierarchic softmax loop.
SkipGramHSRound ==
  /\ arg.op = "SkipGram" /\ seq.pc = "hs"
  /\ arg.hsRounds > 0 /\ seq.r < arg.hsRounds
  /\ LET row == arg.idxSyn1[seq.r]
         code == arg.codes[seq.r]
         out == HierarchicSoftmax(seq.syn0[arg.syn0Row], seq.syn1[row], arg.expTable,
                                  seq.neu1e, arg.vectorLength, arg.expLength, code, arg.alpha)
     IN  seq' = [seq EXCEPT !.args1 = <<"syn1", row>>,
                            !.code = code,
                            !.syn0[arg.syn0Row] = out.emb,
                            !.syn1[row] = out.row,
                            !.neu1e = out.neu1e,
                            !.r = seq.r + 1,
                            !.calls = Append(@, Call("HierarchicSoftmax", seq.r,
                                                     <<"syn1", row>>, code, out))]
  /\ UNCHANGED <<kin, kout, arg, cuda, vec, pair>>

\* Line 429, after the loop of lines 417-425: int target = ngStarter.
SkipGramHSDone ==
  /\ arg.op = "SkipGram" /\ seq.pc = "hs"
  /\ ~(arg.hsRounds > 0 /\ seq.r < arg.hsRounds)
  /\ seq' = [seq EXCEPT !.pc = "ng", !.target = arg.ngStarter, !.r = 0]
  /\ UNCHANGED <<kin, kout, arg, cuda, vec, pair>>

\* Mutant: round 0 calls the kernel with code 0.
SkipGramNGFirstAsNegative ==
  /\ arg.op = "SkipGram" /\ seq.pc = "ng"
  /\ arg.ngRounds > 0 /\ seq.r < arg.ngRounds + 1 /\ seq.r = 0
  /\ LET row == seq.target
         out == NegativeSampling(seq.syn0[arg.syn0Row], seq.syn1Neg[row], arg.expTable,
                                 seq.neu1e, arg.vectorLength, arg.expLength, 0, arg.alpha)
     IN  seq' = [seq EXCEPT !.args1 = <<"syn1Neg", row>>,
                            !.code = 0,
                            !.syn0[arg.syn0Row] = out.emb,
                            !.syn1Neg[row] = out.row,
                            !.neu1e = out.neu1e,
                            !.r = seq.r + 1,
                            !.calls = Append(@, Call("NegativeSampling", seq.r,
                                                     <<"syn1Neg", row>>, 0, out))]
  /\ UNCHANGED <<kin, kout, arg, cuda, vec, pair>>

\* Lines 431-433, 445-447: round 0 of the negative sampling loop.
SkipGramNGFirst ==
  /\ arg.op = "SkipGram" /\ seq.pc = "ng"
  /\ arg.ngRounds > 0 /\ seq.r < arg.ngRounds + 1 /\ seq.r = 0
  /\ LET row == seq.target
         out == NegativeSampling(seq.syn0[arg.syn0Row], seq.syn1Neg[row], arg.expTable,
                                 seq.neu1e, arg.vectorLength, arg.expLength, 1, arg.alpha)
     IN  seq' = [seq EXCEPT !.args1 = <<"syn1Neg", row>>,
                            !.code = 1,
                            !.syn0[arg.syn0Row] = out.emb,
                            !.syn1Neg[row] = out.row,
                            !.neu1e = out.neu1e,
                            !.r = seq.r + 1,
                            !.calls = Append(@, Call("NegativeSampling", seq.r,
                                                     <<"syn1Neg", row>>, 1, out))]
  /\ UNCHANGED <<kin, kout, arg, cuda, vec, pair>>

\* Lines 431, 434-447: a round r > 0 of the negative sampling loop: the draw,
\* then either continue or the call with code 0.  The run ends in "fault"
\* when the division of line 438 traps, or when the kernel is handed a row
\* outside syn1Neg.
SkipGramNGDraw ==
  /\ arg.op = "SkipGram" /\ seq.pc = "ng"
  /\ arg.ngRounds > 0 /\ seq.r < arg.ngRounds + 1 /\ seq.r # 0
  /\ \E o \in DrawOutcomes(NextRandom(seq.next_random), arg.negTable,
                            arg.negTableLength, arg.vocabSize) :
       LET next_random == NextRandom(seq.next_random)
           target == o.target
           out == NegativeSampling(seq.syn0[arg.syn0Row], seq.syn1Neg[target], arg.expTable,
                                   seq.neu1e, arg.vectorLength, arg.expLength, 0, arg.alpha)
           drawn == [seq EXCEPT !.next_random = next_random,
                                !.target = target,
                                !.draws = Append(@, target),
                                !.r = seq.r + 1]
       IN  IF o.trap
             THEN seq' = [seq EXCEPT !.next_random = next_random, !.pc = "fault"]
           ELSE IF Collides(target, arg.ngStarter)
             THEN seq' = drawn
           ELSE IF target \notin DOMAIN seq.syn1Neg
             THEN seq' = [drawn EXCEPT !.args1 = <<"syn1Neg", target>>,
                                       !.code = 0,
                                       !.pc = "fault"]
           ELSE seq' = [drawn EXCEPT !.args1 = <<"syn1Neg", target>>,
                                     !.code = 0,
                                     !.syn0[arg.syn0Row] = out.emb,
                                     !.syn1Neg[target] = out.row,
                                     !.neu1e = out.neu1e,
                                     !.calls = Append(@, Call("NegativeSampling", seq.r,
                                                              <<"syn1Neg", target>>, 0, out))]
  /\ UNCHANGED <<kin, kout, arg, cuda, vec, pair>>

\* The negative sampling loop of lines 430-448 is over, or is not entered.
SkipGramNGDone ==
  /\ arg.op = "SkipGram" /\ seq.pc = "ng"
  /\ ~(arg.ngRounds > 0 /\ seq.r < arg.ngRounds + 1)
  /\ seq' = [seq EXCEPT !.pc = "final"]
  /\ UNCHANGED <<kin, kout, arg, cuda, vec, pair>>

\* Lines 450-453: syn0[x] += neu1e[x] on the center word's row.
SkipGramFinalAdd ==
  /\ arg.op = "SkipGram" /\ seq.pc = "final"
  /\ seq' = [seq EXCEPT !.pc = "free",
                        !.syn0[arg.syn0Row] = AddInto(@, seq.neu1e, arg.vectorLength)]
  /\ UNCHANGED <<kin, kout, arg, cuda, vec, pair>>

\* Lines 455-457: delete[] neu1e, args, idxArgs.
SkipGramFree ==
  /\ arg.op = "SkipGram" /\ seq.pc = "free"
  /\ seq' = [seq EXCEPT !.pc = "done", !.heap = @ \ {"neu1e", "args", "idxArgs"}]
  /\ UNCHANGED <<kin, kout, arg, cuda, vec, pair>>


\* ------------------------------------------------ CBOW<T>::executeAggregate
\* Lines 612-620: neu1[i] += syn0word[i] over the rows idxSyn0[0 .. c-1].
RECURSIVE SumWindow(_, _, _, _)
SumWindow(syn0, idxSyn0, c, n) ==
  IF c = 0 THEN ZeroVec(n)
  ELSE AddInto(SumWindow(syn0, idxSyn0, c - 1, n), syn0[idxSyn0[c - 1]], n)

\* 0.0 / 0 in T.
NaN == -(Scale * Scale * Scale)

\* Mutant: the division without the test idxSyn0Length > 0.
AverageUnguarded(neu1, idxSyn0Length, n) ==
  [neu1 |-> [i \in DOMAIN neu1 |->
               IF i >= n THEN neu1[i]
               ELSE IF idxSyn0Length = 0 THEN NaN
               ELSE Div(neu1[i], FromInt(idxSyn0Length))],
   divisors |-> {idxSyn0Length}]

\* Lines 622-628: neu1[i] /= idxSyn0Length, if idxSyn0Length > 0.  divisors
\* is the set of divisors the loop has used.
Average(neu1, idxSyn0Length, n) ==
  IF idxSyn0Length > 0
    THEN [neu1 |-> [i \in DOMAIN neu1 |->
                      IF i < n THEN Div(neu1[i], FromInt(idxSyn0Length)) ELSE neu1[i]],
          divisors |-> {idxSyn0Length}]
    ELSE [neu1 |-> neu1, divisors |-> {}]

\* Lines 577-632: the locals, neu1 and neu1e, idxArgs, and neu1 built as the
\* average of the window's rows.
CBOWBegin ==
  /\ arg.op = "CBOW" /\ seq.pc = "start"
  /\ LET avg == Average(SumWindow(seq.syn0, arg.idxSyn0, arg.idxSyn0Length, arg.vectorLength),
                        arg.idxSyn0Length, arg.vectorLength)
     IN  seq' = [seq EXCEPT !.pc = "hs",
                            !.neu1 = avg.neu1,
                            !.divisors = avg.divisors,
                            !.neu1e = NewZeroed(arg.vectorLength),
                            !.next_random = ToU64(arg.seed),
                            !.r = 0,
                            !.heap = {"neu1", "neu1e", "idxArgs"}]
  /\ UNCHANGED <<kin, kout, arg, cuda, vec, pair>>

\* Lines 634-640: one round of the hierarchic softmax loop, on neu1.
CBOWHSRound ==
  /\ arg.op = "CBOW" /\ seq.pc = "hs"
  /\ arg.hsRounds > 0 /\ seq.r < arg.hsRounds
  /\ LET row == arg.idxSyn1[seq.r]
         code == arg.codes[seq.r]
         out == HierarchicSoftmax(seq.neu1, seq.syn1[row], arg.expTable,
                                  seq.neu1e, arg.vectorLength, arg.expLength, code, arg.alpha)
     IN  seq' = [seq EXCEPT !.args1 = <<"syn1", row>>,
                            !.code = code,
                            !.neu1 = out.emb,
                            !.syn1[row] = out.row,
                            !.neu1e = out.neu1e,
                            !.r = seq.r + 1,
                            !.calls = Append(@, Call("HierarchicSoftmax", seq.r,
                                                     <<"syn1", row>>, code, out))]
  /\ UNCHANGED <<kin, kout, arg, cuda, vec, pair>>

\* Line 642, after the loop of lines 634-640: int target = ngStarter.
CBOWHSDone ==
  /\ arg.op = "CBOW" /\ seq.pc = "hs"
  /\ ~(arg.hsRounds > 0 /\ seq.r < arg.hsRounds)
  /\ seq' = [seq EXCEPT !.pc = "ng", !.target = arg.ngStarter, !.r = 0]
  /\ UNCHANGED <<kin, kout, arg, cuda, vec, pair>>

\* Lines 644-646, 658-662: round 0 of the negative sampling loop.
CBOWNGFirst ==
  /\ arg.op = "CBOW" /\ seq.pc = "ng"
  /\ arg.ngRounds > 0 /\ seq.r < arg.ngRounds + 1 /\ seq.r = 0
  /\ LET row == seq.target
         out == NegativeSampling(seq.neu1, seq.syn1Neg[row], arg.expTable,
                                 seq.neu1e, arg.vectorLength, arg.expLength, 1, arg.alpha)
     IN  seq' = [seq EXCEPT !.args1 = <<"syn1Neg", row>>,
                            !.code = 1,
                            !.neu1 = out.emb,
                            !.syn1Neg[row] = out.row,
                            !.neu1e = out.neu1e,
                            !.r = seq.r + 1,
                            !.calls = Append(@, Call("NegativeSampling", seq.r,
                                                     <<"syn1Neg", row>>, 1, out))]
  /\ UNCHANGED <<kin, kout, arg, cuda, vec, pair>>

\* Lines 644, 647-662: a round i > 0 of the negative sampling loop; "fault"
\* as in SkipGram, on the division of line 651.
CBOWNGDraw ==
  /\ arg.op = "CBOW" /\ seq.pc = "ng"
  /\ arg.ngRounds > 0 /\ seq.r < arg.ngRounds + 1 /\ seq.r # 0
  /\ \E o \in DrawOutcomes(NextRandom(seq.next_random), arg.negTable,
                            arg.negTableLength, arg.vocabSize) :
       LET next_random == NextRandom(seq.next_random)
           target == o.target
           out == NegativeSampling(seq.neu1, seq.syn1Neg[target], arg.expTable,
                                   seq.neu1e, arg.vectorLength, arg.expLength, 0, arg.alpha)
           drawn == [seq EXCEPT !.next_random = next_random,
                                !.target = target,
                                !.draws = Append(@, target),
                                !.r = seq.r + 1]
       IN  IF o.trap
             THEN seq' = [seq EXCEPT !.next_random = next_random, !.pc = "fault"]
           ELSE IF Collides(target, arg.ngStarter)
             THEN seq' = drawn
           ELSE IF target \notin DOMAIN seq.syn1Neg
             THEN seq' = [drawn EXCEPT !.args1 = <<"syn1Neg", target>>,
                                       !.code = 0,
                                       !.pc = "fault"]
           ELSE seq' = [drawn EXCEPT !.args1 = <<"syn1Neg", target>>,
                                     !.code = 0,
                                     !.neu1 = out.emb,
                                     !.syn1Neg[target] = out.row,
                                     !.neu1e = out.neu1e,
                                     !.calls = Append(@, Call("NegativeSampling", seq.r,
                                                              <<"syn1Neg", target>>, 0, out))]
  /\ UNCHANGED <<kin, kout, arg, cuda, vec, pair>>

\* The negative sampling loop of lines 643-663 is over, or is not entered.
CBOWNGDone ==
  /\ arg.op = "CBOW" /\ seq.pc = "ng"
  /\ ~(arg.ngRounds > 0 /\ seq.r < arg.ngRounds + 1)
  /\ seq' = [seq EXCEPT !.pc = "scatter", !.c = 0]
  /\ UNCHANGED <<kin, kout, arg, cuda, vec, pair>>

\* Mutant: every iteration adds into the first row of the window.
CBOWScatterFirstRow ==
  /\ arg.op = "CBOW" /\ seq.pc = "scatter"
  /\ seq.c < arg.idxSyn0Length
  /\ seq' = [seq EXCEPT !.syn0[arg.idxSyn0[0]] = AddInto(@, seq.neu1e, arg.vectorLength),
                        !.c = seq.c + 1]
  /\ UNCHANGED <<kin, kout, arg, cuda, vec, pair>>

\* Lines 666-672: one iteration of the loop that adds neu1e into row idxSyn0[c].
CBOWScatter ==
  /\ arg.op = "CBOW" /\ seq.pc = "scatter"
  /\ seq.c < arg.idxSyn0Length
  /\ seq' = [seq EXCEPT !.syn0[arg.idxSyn0[seq.c]] = AddInto(@, seq.neu1e, arg.vectorLength),
                        !.c = seq.c + 1]
  /\ UNCHANGED <<kin, kout, arg, cuda, vec, pair>>

CBOWScatterDone ==
  /\ arg.op = "CBOW" /\ seq.pc = "scatter"
  /\ ~(seq.c < arg.idxSyn0Length)
  /\ seq' = [seq EXCEPT !.pc = "free"]
  /\ UNCHANGED <<kin, kout, arg, cuda, vec, pair>>

\* Lines 674-675: delete[] neu1, neu1e.  (args is an automatic array; idxArgs
\* of line 606 is not deleted.)
CBOWFree ==
  /\ arg.op = "CBOW" /\ seq.pc = "free"
  /\ seq' = [seq EXCEPT !.pc = "done", !.heap = @ \ {"neu1", "neu1e"}]
  /\ UNCHANGED <<kin, kout, arg, cuda, vec, pair>>

\* ----------------------------------------------- the cooperative invocation
Lanes == DOMAIN cuda.lane

\* The launch: every lane runs executeAggregateCuda on the caller's arguments.
CudaStart(a, blockDim, blockIdx) ==
  [CudaIdle EXCEPT !.pc = "start", !.blockDim = blockDim, !.blockIdx = blockIdx,
                   !.syn0 = a.syn0, !.syn1 = a.syn1, !.syn1Neg = a.syn1Neg,
                   !.neu1 = ZeroVec(a.vectorLength), !.neu1e = ZeroVec(a.vectorLength)]

CudaLaunch ==
  /\ arg.op \in {"SkipGram", "CBOW"} /\ seq.pc = "done" /\ cuda.pc = "idle"
  /\ \E blockDim \in 1 .. MaxLanes, blockIdx \in 0 .. MaxBlockIdx :
       cuda' = CudaStart(arg, blockDim, blockIdx)
  /\ UNCHANGED <<kin, kout, arg, seq, vec, pair>>

\* Where lane t stands at the top of iteration r of the negative sampling
\* loop: lane 0 selects the target ("publish"); the other lanes go to the
\* barrier of line 784 in CBOW ("sync"), and straight to the test of line 554
\* in SkipGram, where line 551 names __syncthreads without calling it.
LoopTop(t, r) ==
  IF arg.ngRounds > 0 /\ r < arg.ngRounds + 1
    THEN (IF t = 0 THEN "publish" ELSE IF arg.op = "CBOW" THEN "sync" ELSE "test")
    ELSE "exit"

EnterLoop(blockDim) ==
  [t \in Idx(blockDim) |-> [r |-> 0, at |-> LoopTop(t, 0), ptr |-> <<"syn1", 0>>]]

\* Lane t goes on to the loop's next iteration.
Advance(l, t) == [l EXCEPT !.r = l.r + 1, !.at = LoopTop(t, l.r + 1)]

\* if (r != 0 && target == ngStarter) continue;  by lane t, on the value of
\* the shared target it sees now.
LaneTest(c, t) ==
  IF c.lane[t].r # 0 /\ Collides(c.target, arg.ngStarter)
    THEN [c EXCEPT !.lane[t] = Advance(@, t)]
    ELSE [c EXCEPT !.lane[t].at = "enter"]

\* T *syn1Neg = arguments[1] at the kernel's entry, by lane t, on the value of
\* the shared args[1] it sees now; then the lane waits at the barrier.
LaneEnter(c, t) == [c EXCEPT !.lane[t].ptr = c.args1, !.lane[t].at = "inside"]

\* The row as the lanes of one kernel call see it: index x belongs to lane
\* x % blockDim, which reaches it through the pointer it read at entry.
RowView(c, n) ==
  [x \in Idx(n) |->
     LET p == c.lane[x % c.blockDim].ptr
     IN  IF p[1] = "syn1" THEN c.syn1[p[2]][x] ELSE c.syn1Neg[p[2]][x]]

\* The matrix called name after the lanes stored row through their pointers.
ScatterRow(mat, name, c, row, n) ==
  [w \in DOMAIN mat |-> [x \in DOMAIN mat[w] |->
     IF x < n /\ c.lane[x % c.blockDim].ptr = <<name, w>> THEN row[x] ELSE mat[w][x]]]

\* Lines 255-257 of NegativeSampling<T>::executeAggregateCuda: the return
\* that leaves the call before its last three barriers.
ReturnsEarly(syn0, syn1Neg, vectorLength, expLength, blockDim) ==
  LET dot == DotCuda(syn0, syn1Neg, vectorLength, blockDim, blockDim)
  IN  ExpIdx(dot, expLength) >= expLength /\ dot <= HS_MAX_EXP /\ dot >= -HS_MAX_EXP

\* One NegativeSampling<T>::executeAggregateCuda call by all lanes, on the
\* embedding emb; what it leaves in the matrices, neu1e and calls.
LanesCall(c, emb) ==
  LET n == arg.vectorLength
      out == NegativeSamplingCuda(emb, RowView(c, n), arg.expTable, c.neu1e,
                                  n, arg.expLength, c.code, arg.alpha, c.blockDim)
  IN  [c EXCEPT !.syn1 = ScatterRow(@, "syn1", c, out.row, n),
                !.syn1Neg = ScatterRow(@, "syn1Neg", c, out.row, n),
                !.neu1e = out.neu1e,
                !.calls = Append(@, Call("NegativeSampling", c.lane[0].r,
                                         c.lane[0].ptr, c.code, out))]

\* The lanes wait at barriers that are not the same barrier, or some wait
\* while others have left the loop.
BarrierMismatch(c) ==
  /\ \A t \in DOMAIN c.lane : c.lane[t].at \in {"sync", "inside", "exit"}
  /\ \E t \in DOMAIN c.lane : c.lane[t].at # "exit"
  /\ \E t, u \in DOMAIN c.lane : c.lane[t].at # c.lane[u].at

\* ---------------------------------------- SkipGram<T>::executeAggregateCuda
\* Lines 462-516: lane 0 fills the shared locals, the lanes zero neu1e.
SkipGramCudaBegin ==
  /\ arg.op = "SkipGram" /\ cuda.pc = "start"
  /\ cuda' = [cuda EXCEPT !.pc = "hs",
                          !.neu1e = ZeroVec(arg.vectorLength),
                          !.args1 = <<"syn1", 0>>,
                          !.next_random = ToU64(arg.seed),
                          !.r = 0]
  /\ UNCHANGED <<kin, kout, arg, seq, vec, pair>>

\* Lines 519-527: one round of the hierarchic softmax loop.
SkipGramCudaHSRound ==
  /\ arg.op = "SkipGram" /\ cuda.pc = "hs"
  /\ cuda.r < arg.hsRounds
  /\ LET row == arg.idxSyn1[cuda.r]
         code == arg.codes[cuda.r]
         out == HierarchicSoftmaxCuda(cuda.syn0[arg.syn0Row], cuda.syn1[row], arg.expTable,
                                      cuda.neu1e, arg.vectorLength, arg.expLength, code,
                                      arg.alpha, cuda.blockDim)
     IN  cuda' = [cuda EXCEPT !.args1 = <<"syn1", row>>,
                              !.code = code,
                              !.syn0[arg.syn0Row] = out.emb,
                              !.syn1[row] = out.row,
                              !.neu1e = out.neu1e,
                              !.r = cuda.r + 1,
                              !.calls = Append(@, Call("HierarchicSoftmax", cuda.r,
                                                       <<"syn1", row>>, code, out))]
  /\ UNCHANGED <<kin, kout, arg, seq, vec, pair>>

\* Lines 528-533: the barrier after the loop; the lanes reach the negative
\* sampling loop.
SkipGramCudaHSDone ==
  /\ arg.op = "SkipGram" /\ cuda.pc = "hs"
  /\ ~(cuda.r < arg.hsRounds)
  /\ cuda' = [cuda EXCEPT !.pc = "ng", !.r = 0, !.lane = EnterLoop(cuda.blockDim)]
  /\ UNCHANGED <<kin, kout, arg, seq, vec, pair>>

\* Lines 534-550: lane 0 selects the round's target, code and row.
SkipGramCudaNGPublish ==
  /\ arg.op = "SkipGram" /\ cuda.pc = "ng"
  /\ cuda.lane[0].at = "publish"
  /\ LET next_random == U64MulAdd(cuda.next_random, LcgMultiplier, 11 + cuda.blockIdx)
         target == DrawTarget(next_random, arg.negTable, arg.negTableLength, arg.vocabSize)
     IN  IF cuda.lane[0].r = 0
           THEN cuda' = [cuda EXCEPT !.target = arg.ngStarter,
                                     !.code = 1,
                                     !.args1 = <<"syn1Neg", arg.ngStarter>>,
                                     !.lane[0].at = "test"]
           ELSE cuda' = [cuda EXCEPT !.next_random = next_random,
                                     !.target = target,
                                     !.draws = Append(@, target),
                                     !.code = 0,
                                     !.args1 = <<"syn1Neg", target>>,
                                     !.lane[0].at = "test"]
  /\ UNCHANGED <<kin, kout, arg, seq, vec, pair>>

\* Lines 554-555, by one lane.
SkipGramCudaNGTest ==
  /\ arg.op = "SkipGram" /\ cuda.pc = "ng"
  /\ \E t \in Lanes : /\ cuda.lane[t].at = "test"
                      /\ cuda' = LaneTest(cuda, t)
  /\ UNCHANGED <<kin, kout, arg, seq, vec, pair>>

\* Line 557 up to the kernel's first barrier (line 240), by one lane.  Lane
\* 0 zeroes the kernel's shared dot (line 236): a lane that has yet to read
\* dot for the return of the call before (line 255) will read this one.
SkipGramCudaNGEnter ==
  /\ arg.op = "SkipGram" /\ cuda.pc = "ng"
  /\ \E t \in Lanes :
       /\ cuda.lane[t].at = "enter"
       /\ cuda' = [LaneEnter(cuda, t) EXCEPT
                     !.lane = [u \in Lanes |->
                                 IF t = 0 /\ @[u].at = "leaving"
                                   THEN [@[u] EXCEPT !.at = "late"] ELSE @[u]]]
  /\ UNCHANGED <<kin, kout, arg, seq, vec, pair>>

\* Line 557 from the kernel's first barrier on, by all lanes.  After the
\* return of line 257 no barrier follows: the lanes other than lane 0 are
\* left at that return ("leaving").
SkipGramCudaNGKernel ==
  /\ arg.op = "SkipGram" /\ cuda.pc = "ng"
  /\ \A t \in Lanes : cuda.lane[t].at = "inside"
  /\ LET emb == cuda.syn0[arg.syn0Row]
         early == ReturnsEarly(emb, RowView(cuda, arg.vectorLength), arg.vectorLength,
                               arg.expLength, cuda.blockDim)
     IN  cuda' = [LanesCall(cuda, emb) EXCEPT
                    !.lane = [t \in Lanes |->
                                IF early /\ t # 0 THEN [@[t] EXCEPT !.at = "leaving"]
                                ELSE Advance(@[t], t)]]
  /\ UNCHANGED <<kin, kout, arg, seq, vec, pair>>

\* Lines 255-257 by a lane other than lane 0, on the dot of its own call.
SkipGramCudaNGLeave ==
  /\ arg.op = "SkipGram" /\ cuda.pc = "ng"
  /\ \E t \in Lanes : /\ cuda.lane[t].at = "leaving"
                      /\ cuda' = [cuda EXCEPT !.lane[t] = Advance(@, t)]
  /\ UNCHANGED <<kin, kout, arg, seq, vec, pair>>

\* Lines 255-257 by a lane that reads the dot of lane 0's next call: it
\* returns as lane 0 did, or goes on to the barrier of line 274 alone.
SkipGramCudaNGLeaveLate ==
  /\ arg.op = "SkipGram" /\ cuda.pc = "ng"
  /\ \E t \in Lanes :
       /\ cuda.lane[t].at = "late"
       /\ \/ cuda' = [cuda EXCEPT !.lane[t] = Advance(@, t)]
          \/ cuda' = [cuda EXCEPT !.pc = "diverged"]
  /\ UNCHANGED <<kin, kout, arg, seq, vec, pair>>

\* Some lanes wait at the kernel's barrier while the others have left the
\* loop: the block no longer runs one call together.
SkipGramCudaNGDiverge ==
  /\ arg.op = "SkipGram" /\ cuda.pc = "ng"
  /\ BarrierMismatch(cuda)
  /\ cuda' = [cuda EXCEPT !.pc = "diverged"]
  /\ UNCHANGED <<kin, kout, arg, seq, vec, pair>>

\* Every lane has left the loop of lines 532-558.
SkipGramCudaNGDone ==
  /\ arg.op = "SkipGram" /\ cuda.pc = "ng"
  /\ \A t \in Lanes : cuda.lane[t].at = "exit"
  /\ cuda' = [cuda EXCEPT !.pc = "final"]
  /\ UNCHANGED <<kin, kout, arg, seq, vec, pair>>

\* Lines 563-565: syn0[x] += neu1e[x] on the center word's row.
SkipGramCudaFinalAdd ==
  /\ arg.op = "SkipGram" /\ cuda.pc = "final"
  /\ cuda' = [cuda EXCEPT !.pc = "done",
                          !.syn0[arg.syn0Row] = AddInto(@, cuda.neu1e, arg.vectorLength)]
  /\ UNCHANGED <<kin, kout, arg, seq, vec, pair>>

\* -------------------------------------------- CBOW<T>::executeAggregateCuda
\* Lines 683-753: the shared locals, neu1 and neu1e zeroed, and neu1 built as
\* the average of the window's rows.
CBOWCudaBegin ==
  /\ arg.op = "CBOW" /\ cuda.pc = "start"
  /\ LET avg == Average(SumWindow(cuda.syn0, arg.idxSyn0, arg.idxSyn0Length, arg.vectorLength),
                        arg.idxSyn0Length, arg.vectorLength)
     IN  cuda' = [cuda EXCEPT !.pc = "hs",
                              !.neu1 = avg.neu1,
                              !.divisors = avg.divisors,
                              !.neu1e = ZeroVec(arg.vectorLength),
                              !.next_random = ToU64(arg.seed),
                              !.r = 0]
  /\ UNCHANGED <<kin, kout, arg, seq, vec, pair>>

\* Lines 757-766: one round of the hierarchic softmax loop, on neu1.
CBOWCudaHSRound ==
  /\ arg.op = "CBOW" /\ cuda.pc = "hs"
  /\ arg.hsRounds > 0 /\ cuda.r < arg.hsRounds
  /\ LET row == arg.idxSyn1[cuda.r]
         code == arg.codes[cuda.r]
         out == HierarchicSoftmaxCuda(cuda.neu1, cuda.syn1[row], arg.expTable,
                                      cuda.neu1e, arg.vectorLength, arg.expLength, code,
                                      arg.alpha, cuda.blockDim)
     IN  cuda' = [cuda EXCEPT !.args1 = <<"syn1", row>>,
                              !.code = code,
                              !.neu1 = out.emb,
                              !.syn1[row] = out.row,
                              !.neu1e = out.neu1e,
                              !.r = cuda.r + 1,
                              !.calls = Append(@, Call("HierarchicSoftmax", cuda.r,
                                                       <<"syn1", row>>, code, out))]
  /\ UNCHANGED <<kin, kout, arg, seq, vec, pair>>

\* Lines 768-770: the lanes reach the negative sampling loop.
CBOWCudaHSDone ==
  /\ arg.op = "CBOW" /\ cuda.pc = "hs"
  /\ ~(arg.hsRounds > 0 /\ cuda.r < arg.hsRounds)
  /\ cuda' = [cuda EXCEPT !.pc = "ng", !.r = 0, !.lane = EnterLoop(cuda.blockDim)]
  /\ UNCHANGED <<kin, kout, arg, seq, vec, pair>>

\* Lines 771-783: lane 0 selects the round's target, row and code, on its
\* own next_random, and goes to the barrier.
CBOWCudaNGPublish ==
  /\ arg.op = "CBOW" /\ cuda.pc = "ng"
  /\ cuda.lane[0].at = "publish"
  /\ LET next_random == NextRandom(cuda.next_random)
         target == DrawTarget(next_random, arg.negTable, arg.negTableLength, arg.vocabSize)
     IN  IF cuda.lane[0].r = 0
           THEN cuda' = [cuda EXCEPT !.target = arg.ngStarter,
                                     !.args1 = <<"syn1Neg", arg.ngStarter>>,
                                     !.code = 1,
                                     !.lane[0].at = "sync"]
           ELSE cuda' = [cuda EXCEPT !.next_random = next_random,
                                     !.target = target,
                                     !.draws = Append(@, target),
                                     !.args1 = <<"syn1Neg", target>>,
                                     !.code = 0,
                                     !.lane[0].at = "sync"]
  /\ UNCHANGED <<kin, kout, arg, seq, vec, pair>>

\* Line 784: the barrier, once every lane has reached it.
CBOWCudaNGSync ==
  /\ arg.op = "CBOW" /\ cuda.pc = "ng"
  /\ \A t \in Lanes : cuda.lane[t].at = "sync"
  /\ cuda' = [cuda EXCEPT !.lane = [t \in Lanes |-> [@[t] EXCEPT !.at = "test"]]]
  /\ UNCHANGED <<kin, kout, arg, seq, vec, pair>>

\* Lines 786-787, by one lane.
CBOWCudaNGTest ==
  /\ arg.op = "CBOW" /\ cuda.pc = "ng"
  /\ \E t \in Lanes : /\ cuda.lane[t].at = "test"
                      /\ cuda' = LaneTest(cuda, t)
  /\ UNCHANGED <<kin, kout, arg, seq, vec, pair>>

\* Line 790 up to the kernel's first barrier (line 240), by one lane.
CBOWCudaNGEnter ==
  /\ arg.op = "CBOW" /\ cuda.pc = "ng"
  /\ \E t \in Lanes : /\ cuda.lane[t].at = "enter"
                      /\ cuda' = LaneEnter(cuda, t)
  /\ UNCHANGED <<kin, kout, arg, seq, vec, pair>>

\* Line 790 from the kernel's first barrier on, by all lanes.
CBOWCudaNGKernel ==
  /\ arg.op = "CBOW" /\ cuda.pc = "ng"
  /\ \A t \in Lanes : cuda.lane[t].at = "inside"
  /\ cuda' = [LanesCall(cuda, cuda.neu1) EXCEPT
                !.lane = [t \in Lanes |-> Advance(@[t], t)]]
  /\ UNCHANGED <<kin, kout, arg, seq, vec, pair>>

\* Lane 0 waits at the barrier of line 784 while another lane waits at the
\* kernel's barrier.
CBOWCudaNGDiverge ==
  /\ arg.op = "CBOW" /\ cuda.pc = "ng"
  /\ BarrierMismatch(cuda)
  /\ cuda' = [cuda EXCEPT !.pc = "diverged"]
  /\ UNCHANGED <<kin, kout, arg, seq, vec, pair>>

\* Every lane has left the loop of lines 769-793.
CBOWCudaNGDone ==
  /\ arg.op = "CBOW" /\ cuda.pc = "ng"
  /\ \A t \in Lanes : cuda.lane[t].at = "exit"
  /\ cuda' = [cuda EXCEPT !.pc = "scatter", !.r = 0]
  /\ UNCHANGED <<kin, kout, arg, seq, vec, pair>>

\* Lines 796-802: one iteration of the loop that adds neu1e into row idxSyn0[c].
CBOWCudaScatter ==
  /\ arg.op = "CBOW" /\ cuda.pc = "scatter"
  /\ cuda.r < arg.idxSyn0Length
  /\ cuda' = [cuda EXCEPT !.syn0[arg.idxSyn0[cuda.r]] = AddInto(@, cuda.neu1e, arg.vectorLength),
                          !.r = cuda.r + 1]
  /\ UNCHANGED <<kin, kout, arg, seq, vec, pair>>

CBOWCudaScatterDone ==
  /\ arg.op = "CBOW" /\ cuda.pc = "scatter"
  /\ ~(cuda.r < arg.idxSyn0Length)
  /\ cuda' = [cuda EXCEPT !.pc = "done"]
  /\ UNCHANGED <<kin, kout, arg, seq, vec, pair>>

\* -------------------------------------------------------- Dot<T>, Axpy<T>
\* vecX and vecY of length n: the products vecX[x] * vecY[x] are sign * 2^x,
\* so that no two sets of indices have the same sum.
VecX(n, sign) == [x \in Idx(n) |-> sign * (2 ^ x) * Scale]
VecY(n) == [x \in Idx(n) |-> IF x % 2 = 0 THEN Scale ELSE -Scale]

\* What vecZ[0] and the shared dot hold before the call.
Junk == 7 * Scale

\* realArguments[0] of Axpy.
VecAlphas == {Scale \div 2, -3 * Scale}

\* Lane t before its first statement: lane 0 has dot to zero in Dot (line
\* 326); the other lanes go to the barrier of line 328; in Axpy every lane
\* starts its loop at x = threadIdx.x (line 369).
VecLanes(op, blockDim) ==
  [t \in Idx(blockDim) |->
     [at |-> IF op = "AxpyCuda" THEN "loop"
             ELSE IF op = "DotCuda" /\ t = 0 THEN "start"
             ELSE IF op = "DotCuda" THEN "sync1"
             ELSE "call",
      x |-> t]]

VecCall(op, n, blockDim, sign, alpha) ==
  [op |-> op, n |-> n, blockDim |-> blockDim, alpha |-> alpha,
   vecX |-> VecX(n, sign), vecY |-> VecY(n), vecZ |-> Junk, dot |-> Junk,
   x0 |-> VecX(n, sign), y0 |-> VecY(n),
   lane |-> VecLanes(op, blockDim),
   arrived |-> [b \in {1, 2} |-> {}],
   added |-> <<>>, stored |-> <<>>, wrote |-> {}]

VecInputs ==
  {VecCall(op, n, 1, sign, alpha) :
     op \in {"Dot", "Axpy"}, n \in 0 .. MaxDotLen, sign \in {1, -1}, alpha \in VecAlphas}
  \cup
  {VecCall(op, n, blockDim, 1, alpha) :
     op \in {"DotCuda", "AxpyCuda"}, n \in 0 .. MaxDotLen,
     blockDim \in 1 .. MaxLanes, alpha \in VecAlphas}

\* Mutant: the barrier lets a lane through at once.
ReleasedAtOnce(arrived, lanes) == TRUE

\* __syncthreads(): a lane that has arrived goes on once every lane of the
\* block has arrived.
Released(arrived, lanes) == arrived = lanes

\* Dot<T>::executeAggregate, lines 300-315.
DotCall ==
  /\ vec.op = "Dot" /\ vec.lane[0].at = "call"
  /\ vec' = [vec EXCEPT !.vecZ = DotLoop(vec.vecX, vec.vecY, vec.n),
                        !.wrote = @ \cup {"vecZ"},
                        !.lane[0].at = "done"]
  /\ UNCHANGED <<kin, kout, arg, seq, cuda, pair>>

\* Lines 326-327: lane 0 zeroes the shared dot.
DotCudaZero ==
  /\ vec.op = "DotCuda" /\ vec.lane[0].at = "start"
  /\ vec' = [vec EXCEPT !.dot = 0, !.lane[0].at = "sync1"]
  /\ UNCHANGED <<kin, kout, arg, seq, cuda, pair>>

\* Lines 328 and 334: a lane arrives at a barrier.
DotCudaArrive ==
  /\ vec.op = "DotCuda"
  /\ \E t \in DOMAIN vec.lane :
       \/ /\ vec.lane[t].at = "sync1"
          /\ vec' = [vec EXCEPT !.arrived[1] = @ \cup {t}, !.lane[t].at = "wait1"]
       \/ /\ vec.lane[t].at = "sync2"
          /\ vec' = [vec EXCEPT !.arrived[2] = @ \cup {t}, !.lane[t].at = "wait2"]
  /\ UNCHANGED <<kin, kout, arg, seq, cuda, pair>>

\* Lines 328 and 334: a lane leaves a barrier.
DotCudaPass ==
  /\ vec.op = "DotCuda"
  /\ \E t \in DOMAIN vec.lane :
       \/ /\ vec.lane[t].at = "wait1"
          /\ Released(vec.arrived[1], DOMAIN vec.lane)
          /\ vec' = [vec EXCEPT !.lane[t].at = "loop"]
       \/ /\ vec.lane[t].at = "wait2"
          /\ Released(vec.arrived[2], DOMAIN vec.lane)
          /\ vec' = [vec EXCEPT !.lane[t].at = IF t = 0 THEN "write" ELSE "done"]
  /\ UNCHANGED <<kin, kout, arg, seq, cuda, pair>>

\* Lines 330-333: one iteration of a lane's loop, the atomicAdd of its
\* product to the shared dot.
DotCudaAdd ==
  /\ vec.op = "DotCuda"
  /\ \E t \in DOMAIN vec.lane :
       /\ vec.lane[t].at = "loop" /\ vec.lane[t].x < vec.n
       /\ vec' = [vec EXCEPT
                    !.dot = @ + Mul(vec.vecX[vec.lane[t].x], vec.vecY[vec.lane[t].x]),
                    !.added = Append(@, vec.lane[t].x),
                    !.lane[t].x = @ + vec.blockDim]
  /\ UNCHANGED <<kin, kout, arg, seq, cuda, pair>>

\* Line 330: a lane's loop is over.
DotCudaLoopEnd ==
  /\ vec.op = "DotCuda"
  /\ \E t \in DOMAIN vec.lane :
       /\ vec.lane[t].at = "loop" /\ ~(vec.lane[t].x < vec.n)
       /\ vec' = [vec EXCEPT !.lane[t].at = "sync2"]
  /\ UNCHANGED <<kin, kout, arg, seq, cuda, pair>>

\* Lines 336-337: lane 0 stores the shared dot in vecZ[0].
DotCudaWrite ==
  /\ vec.op = "DotCuda" /\ vec.lane[0].at = "write"
  /\ vec' = [vec EXCEPT !.vecZ = vec.dot,
                        !.wrote = @ \cup {"vecZ"},
                        !.lane[0].at = "done"]
  /\ UNCHANGED <<kin, kout, arg, seq, cuda, pair>>

\* Axpy<T>::executeAggregate, lines 346-358.
AxpyCall ==
  /\ vec.op = "Axpy" /\ vec.lane[0].at = "call"
  /\ vec' = [vec EXCEPT !.vecY = AxpyLoop(vec.alpha, vec.vecX, vec.vecY, vec.n),
                        !.stored = [i \in 1 .. vec.n |-> <<0, i - 1>>],
                        !.wrote = IF vec.n > 0 THEN @ \cup {"vecY"} ELSE @,
                        !.lane[0].at = "done"]
  /\ UNCHANGED <<kin, kout, arg, seq, cuda, pair>>

\* Lines 369-371: one iteration of a lane's loop.
AxpyCudaStore ==
  /\ vec.op = "AxpyCuda"
  /\ \E t \in DOMAIN vec.lane :
       /\ vec.lane[t].at = "loop" /\ vec.lane[t].x < vec.n
       /\ LET x == vec.lane[t].x
          IN  vec' = [vec EXCEPT !.vecY[x] = Mul(vec.alpha, vec.vecX[x]) + vec.vecY[x],
                                 !.stored = Append(@, <<t, x>>),
                                 !.wrote = @ \cup {"vecY"},
                                 !.lane[t].x = @ + vec.blockDim]
  /\ UNCHANGED <<kin, kout, arg, seq, cuda, pair>>

\* Lines 369 and 372: a lane's loop is over and the lane arrives at the
\* barrier.
AxpyCudaArrive ==
  /\ vec.op = "AxpyCuda"
  /\ \E t \in DOMAIN vec.lane :
       /\ vec.lane[t].at = "loop" /\ ~(vec.lane[t].x < vec.n)
       /\ vec' = [vec EXCEPT !.arrived[1] = @ \cup {t}, !.lane[t].at = "wait1"]
  /\ UNCHANGED <<kin, kout, arg, seq, cuda, pair>>

\* Line 372: a lane leaves the barrier and returns.
AxpyCudaPass ==
  /\ vec.op = "AxpyCuda"
  /\ \E t \in DOMAIN vec.lane :
       /\ vec.lane[t].at = "wait1"
       /\ Released(vec.arrived[1], DOMAIN vec.lane)
       /\ vec' = [vec EXCEPT !.lane[t].at = "done"]
  /\ UNCHANGED <<kin, kout, arg, seq, cuda, pair>>

\* ------------------------- two SkipGram<T>::executeAggregate calls at once
\* Two threads run one sequential SkipGram invocation each on the same syn0,
\* syn1 and syn1Neg.  pair.l[k] holds the locals of invocation k, pair.neu1e
\* the buffers allocated by line 393.
Threads == {1, 2}

\* Mutant: the invocations accumulate in one buffer.
Neu1eShared(k) == 1

\* T *neu1e = new T[vectorLength]: the buffer of invocation k is its own.
Neu1eBuffer(k) == k

\* The arguments of the two invocations: center word 0 for the first and 1
\* for the second, no or one hierarchic softmax round, no or MaxNgRounds
\* negative rounds on a negTable that holds row 1 or row 2 throughout.
PairHsArgs == {hs \in HsArgs : hs.hsRounds <= 1}

PairNgArgs ==
  {ng \in NgArgs : /\ ng.ngRounds \in {0, MaxNgRounds} /\ ng.seed = 0
                   /\ ng.negTable \in {NegTableFrom(1, 0), NegTableFrom(2, 0)}}

PairArgs(centers) ==
  {Invocation("SkipGram", w, hs, ng) :
     w \in {v \in WordArgs("SkipGram") : v.syn0Row \in centers},
     hs \in PairHsArgs, ng \in PairNgArgs}

\* Both invocations at their entry, on the caller's matrices.
PairStart(a, b) ==
  [on |-> TRUE, arg |-> <<a, b>>,
   syn0 |-> a.syn0, syn1 |-> a.syn1, syn1Neg |-> a.syn1Neg,
   neu1e |-> [k \in Threads |-> [x \in Idx(a.vectorLength) |-> 7]],
   l |-> [k \in Threads |->
            [pc |-> "start", r |-> 0, next_random |-> U64(0), target |-> 0,
             rows1 |-> {}, rowsNeg |-> {}]]]

\* Lines 383-415 by invocation k.
InvBegin(p, k) ==
  [p EXCEPT !.neu1e[Neu1eBuffer(k)] = NewZeroed(p.arg[k].vectorLength),
            !.l[k].pc = "hs",
            !.l[k].next_random = ToU64(p.arg[k].seed),
            !.l[k].r = 0]

\* Lines 417-427 by invocation k: one round of the hierarchic softmax loop,
\* or the loop's end.
InvHSRound(p, k) ==
  LET a == p.arg[k]
      r == p.l[k].r
      row == a.idxSyn1[r]
      out == HierarchicSoftmax(p.syn0[a.syn0Row], p.syn1[row], a.expTable,
                               p.neu1e[Neu1eBuffer(k)], a.vectorLength, a.expLength,
                               a.codes[r], a.alpha)
  IN  IF a.hsRounds > 0 /\ r < a.hsRounds
        THEN [p EXCEPT !.syn0[a.syn0Row] = out.emb,
                       !.syn1[row] = out.row,
                       !.neu1e[Neu1eBuffer(k)] = out.neu1e,
                       !.l[k].r = r + 1,
                       !.l[k].rows1 = @ \cup {row}]
        ELSE [p EXCEPT !.l[k].pc = "ng", !.l[k].target = a.ngStarter, !.l[k].r = 0]

\* Lines 429-448 by invocation k: one round of the negative sampling loop,
\* or the loop's end.
InvNGRound(p, k) ==
  LET a == p.arg[k]
      r == p.l[k].r
      next_random == NextRandom(p.l[k].next_random)
      target == IF r = 0 THEN p.l[k].target
                ELSE DrawTarget(next_random, a.negTable, a.negTableLength, a.vocabSize)
      out == NegativeSampling(p.syn0[a.syn0Row], p.syn1Neg[target], a.expTable,
                              p.neu1e[Neu1eBuffer(k)], a.vectorLength, a.expLength,
                              IF r = 0 THEN 1 ELSE 0, a.alpha)
      drawn == IF r = 0 THEN [p EXCEPT !.l[k].r = r + 1]
               ELSE [p EXCEPT !.l[k].r = r + 1,
                              !.l[k].next_random = next_random,
                              !.l[k].target = target]
  IN  IF ~(a.ngRounds > 0 /\ r < a.ngRounds + 1)
        THEN [p EXCEPT !.l[k].pc = "final"]
      ELSE IF r # 0 /\ Collides(target, a.ngStarter)
        THEN drawn
      ELSE [drawn EXCEPT !.syn0[a.syn0Row] = out.emb,
                         !.syn1Neg[target] = out.row,
                         !.neu1e[Neu1eBuffer(k)] = out.neu1e,
                         !.l[k].rowsNeg = @ \cup {target}]

\* Lines 450-453 by invocation k.
InvFinalAdd(p, k) ==
  [p EXCEPT !.syn0[p.arg[k].syn0Row] =
              AddInto(@, p.neu1e[Neu1eBuffer(k)], p.arg[k].vectorLength),
            !.l[k].pc = "free"]

\* Lines 455-457 by invocation k.
InvFree(p, k) == [p EXCEPT !.l[k].pc = "done"]

\* The next step of invocation k.
InvStep(p, k) ==
  CASE p.l[k].pc = "start" -> InvBegin(p, k)
    [] p.l[k].pc = "hs" -> InvHSRound(p, k)
    [] p.l[k].pc = "ng" -> InvNGRound(p, k)
    [] p.l[k].pc = "final" -> InvFinalAdd(p, k)
    [] p.l[k].pc = "free" -> InvFree(p, k)

\* One of the two threads takes the next step of its invocation.
PairBegin ==
  /\ pair.on
  /\ \E k \in Threads : pair.l[k].pc = "start" /\ pair' = InvBegin(pair, k)
  /\ UNCHANGED <<kin, kout, arg, seq, cuda, vec>>

PairHSRound ==
  /\ pair.on
  /\ \E k \in Threads : pair.l[k].pc = "hs" /\ pair' = InvHSRound(pair, k)
  /\ UNCHANGED <<kin, kout, arg, seq, cuda, vec>>

PairNGRound ==
  /\ pair.on
  /\ \E k \in Threads : pair.l[k].pc = "ng" /\ pair' = InvNGRound(pair, k)
  /\ UNCHANGED <<kin, kout, arg, seq, cuda, vec>>

PairFinalAdd ==
  /\ pair.on
  /\ \E k \in Threads : pair.l[k].pc = "final" /\ pair' = InvFinalAdd(pair, k)
  /\ UNCHANGED <<kin, kout, arg, seq, cuda, vec>>

PairFree ==
  /\ pair.on
  /\ \E k \in Threads : pair.l[k].pc = "free" /\ pair' = InvFree(pair, k)
  /\ UNCHANGED <<kin, kout, arg, seq, cuda, vec>>

\* --------------------------------------------------------- specifications
NoKernel == [kernel |-> "none"]

\* One kernel call on its own.
InitKernel ==
  /\ kin \in KernelInputs
  /\ kout = NoCall
  /\ arg = NoInvocation
  /\ seq = SeqIdle
  /\ cuda = CudaIdle
  /\ vec = VecIdle
  /\ pair = PairIdle

NextKernel ==
  \/ CallHierarchicSoftmax
  \/ CallHierarchicSoftmaxCuda
  \/ CallNegativeSampling
  \/ CallNegativeSamplingCuda

SpecKernel == InitKernel /\ [][NextKernel]_vars

\* One sequential invocation of SkipGram or CBOW.
Init ==
  /\ kin = NoKernel
  /\ kout = NoCall
  /\ \E op \in {"SkipGram", "CBOW"} :
       \E w \in WordArgs(op), hs \in HsArgs, ng \in NgArgs :
         arg = Invocation(op, w, hs, ng)
  /\ seq = SeqStart(arg)
  /\ cuda = CudaIdle
  /\ vec = VecIdle
  /\ pair = PairIdle

Next ==
  \/ SkipGramBegin
  \/ SkipGramHSRound
  \/ SkipGramHSDone
  \/ SkipGramNGFirst
  \/ SkipGramNGDraw
  \/ SkipGramNGDone
  \/ SkipGramFinalAdd
  \/ SkipGramFree
  \/ CBOWBegin
  \/ CBOWHSRound
  \/ CBOWHSDone
  \/ CBOWNGFirst
  \/ CBOWNGDraw
  \/ CBOWNGDone
  \/ CBOWScatter
  \/ CBOWScatterDone
  \/ CBOWFree

Spec == Init /\ [][Next]_vars

\* The invocation a with a vocabulary of v rows.
WithVocab(a, v) ==
  [a EXCEPT !.vocabSize = v,
            !.syn0 = [w \in Idx(v) |-> a.syn0[w]],
            !.syn1 = [w \in Idx(v) |-> a.syn1[w]],
            !.syn1Neg = [w \in Idx(v) |-> a.syn1Neg[w]]]

\* Every row the caller names is a row of the vocabulary.
RowsWithin(a, v) ==
  /\ a.syn0Row < v /\ a.ngStarter < v
  /\ \A c \in Idx(a.idxSyn0Length) : a.idxSyn0[c] < v
  /\ \A r \in Idx(a.hsRounds) : a.idxSyn1[r] < v

\* One sequential invocation, on a vocabulary of 1 to MaxVocab rows.
InitVocab ==
  /\ kin = NoKernel
  /\ kout = NoCall
  /\ \E op \in {"SkipGram", "CBOW"}, v \in 1 .. MaxVocab :
       \E w \in WordArgs(op), hs \in HsArgs, ng \in NgArgs :
         /\ RowsWithin(Invocation(op, w, hs, ng), v)
         /\ arg = WithVocab(Invocation(op, w, hs, ng), v)
  /\ seq = SeqStart(arg)
  /\ cuda = CudaIdle
  /\ vec = VecIdle
  /\ pair = PairIdle

SpecVocab == InitVocab /\ [][Next]_vars

\* One sequential invocation, then the cooperative invocation on the same
\* arguments.
NextCuda ==
  \/ Next
  \/ CudaLaunch
  \/ SkipGramCudaBegin
  \/ SkipGramCudaHSRound
  \/ SkipGramCudaHSDone
  \/ SkipGramCudaNGPublish
  \/ SkipGramCudaNGTest
  \/ SkipGramCudaNGEnter
  \/ SkipGramCudaNGKernel
  \/ SkipGramCudaNGLeave
  \/ SkipGramCudaNGLeaveLate
  \/ SkipGramCudaNGDiverge
  \/ SkipGramCudaNGDone
  \/ SkipGramCudaFinalAdd
  \/ CBOWCudaBegin
  \/ CBOWCudaHSRound
  \/ CBOWCudaHSDone
  \/ CBOWCudaNGPublish
  \/ CBOWCudaNGSync
  \/ CBOWCudaNGTest
  \/ CBOWCudaNGEnter
  \/ CBOWCudaNGKernel
  \/ CBOWCudaNGDiverge
  \/ CBOWCudaNGDone
  \/ CBOWCudaScatter
  \/ CBOWCudaScatterDone

SpecCuda == Init /\ [][NextCuda]_vars



\* One call of Dot or of Axpy on its own.
InitVector ==
  /\ kin = NoKernel
  /\ kout = NoCall
  /\ arg = NoInvocation
  /\ seq = SeqIdle
  /\ cuda = CudaIdle
  /\ vec \in VecInputs
  /\ pair = PairIdle

NextVector ==
  \/ DotCall
  \/ DotCudaZero
  \/ DotCudaArrive
  \/ DotCudaPass
  \/ DotCudaAdd
  \/ DotCudaLoopEnd
  \/ DotCudaWrite
  \/ AxpyCall
  \/ AxpyCudaStore
  \/ AxpyCudaArrive
  \/ AxpyCudaPass

SpecVector == InitVector /\ [][NextVector]_vars

\* Two sequential SkipGram invocations on different center words, run by two
\* threads at once.
InitPair ==
  /\ kin = NoKernel
  /\ kout = NoCall
  /\ arg = NoInvocation
  /\ seq = SeqIdle
  /\ cuda = CudaIdle
  /\ vec = VecIdle
  /\ \E a \in PairArgs({0}), b \in PairArgs({1}) : pair = PairStart(a, b)

NextPair ==
  \/ PairBegin
  \/ PairHSRound
  \/ PairNGRound
  \/ PairFinalAdd
  \/ PairFree

SpecPair == InitPair /\ [][NextPair]_vars

\* ------------------------------------------------------------------ claims
Invoked == arg.op \in {"SkipGram", "CBOW"}

\* The negative sampling loop has been left (or was never entered).
AfterRounds == seq.pc \in {"final", "scatter", "free", "done"}

\* The calls of NegativeSampling with idxArgs[2] = code so far.
NegativeCalls(code) ==
  {i \in DOMAIN seq.calls :
     seq.calls[i].kernel = "NegativeSampling" /\ seq.calls[i].code = code}

\* The draws so far that gave ngStarter.
Collisions == {i \in DOMAIN seq.draws : seq.draws[i] = arg.ngStarter}

C3_StarterRowOnlyRound0 ==
  [][Invoked =>
       /\ \A i \in DOMAIN seq'.calls :
            (seq'.calls[i].kernel = "NegativeSampling" /\ seq'.calls[i].row = arg.ngStarter)
              => (seq'.calls[i].code = 1 /\ seq'.calls[i].r = 0)
       /\ (seq'.syn1Neg[arg.ngStarter] # seq.syn1Neg[arg.ngStarter])
              => (seq.pc = "ng" /\ seq.r = 0 /\ seq'.code = 1)]_vars

\* C3's case: a draw has collided with ngStarter, after round 0 changed the
\* row of ngStarter.
C3_Witness ==
  /\ Invoked /\ seq.pc = "done" /\ Collisions # {}
  /\ seq.syn1Neg[arg.ngStarter] # arg.syn1Neg[arg.ngStarter]

\* C4: SkipGram with hsRounds = 0 and ngRounds = 0 leaves syn0, syn1 and
\* syn1Neg as they were, at every point of the invocation.
C4_NoRoundsNoChange ==
  (arg.op = "SkipGram" /\ arg.hsRounds = 0 /\ arg.ngRounds = 0) =>
     /\ seq.syn0 = arg.syn0
     /\ seq.syn1 = arg.syn1
     /\ seq.syn1Neg = arg.syn1Neg

\* C4's case: such an invocation has run to its end, final add included.
C4_Witness ==
  /\ arg.op = "SkipGram" /\ arg.hsRounds = 0 /\ arg.ngRounds = 0
  /\ seq.pc = "done" /\ seq.calls = <<>>


\* ---- one kernel call: what the call was given
KDot == DotLoop(kin.emb, kin.row, kin.vectorLength)

KIdx == ExpIdx(KDot, kin.expLength)

KIsHierarchicSoftmax == kin.kernel \in {"HierarchicSoftmax", "HierarchicSoftmaxCuda"}

KIsNegativeSampling == kin.kernel \in {"NegativeSampling", "NegativeSamplingCuda"}

\* The call changed nothing and did not read expTable.
KNoUpdate ==
  /\ kout.neu1e = kin.neu1e
  /\ kout.row = kin.row
  /\ kout.emb = kin.emb
  /\ kout.expRead = {}

\* The call added g times the row it was given into neu1e and g times the
\* embedding into the row, and left the embedding alone.
KUpdatedBy(g) ==
  /\ \A x \in Idx(kin.vectorLength) :
       /\ kout.neu1e[x] = kin.neu1e[x] + Mul(g, kin.row[x])
       /\ kout.row[x] = kin.row[x] + Mul(g, kin.emb[x])
  /\ kout.emb = kin.emb

\* C5: HierarchicSoftmax, on either path, applies no update when the dot
\* product is below -6.0 or at least 6.0, or when the bucket idx is at least
\* expLength: neu1e, the tree-node row and the embedding row are unchanged,
\* the call returns, and expTable has not been read.
C5_OutOfRangeSkips ==
  (kout.done /\ KIsHierarchicSoftmax
    /\ (KDot < -HS_MAX_EXP \/ KDot >= HS_MAX_EXP \/ KIdx >= kin.expLength))
  => KNoUpdate

\* C5's case: a dot product inside [-6.0, 6.0) whose bucket is expLength.
C5_Witness ==
  /\ kout.done /\ KIsHierarchicSoftmax
  /\ KDot >= -HS_MAX_EXP /\ KDot < HS_MAX_EXP /\ KIdx >= kin.expLength
  /\ KNoUpdate

\* C6: with the dot product inside [-6.0, 6.0) and idx < expLength,
\* HierarchicSoftmax takes g = (1 - code - expTable[idx]) * alpha, adds g times
\* the tree-node row as it was before the call into neu1e, and g times the
\* embedding into the tree-node row; in the scenario (embedding [1,0,0,0],
\* tree node [0,1,0,0], f = 0.5, code 1, alpha 0.1) g is -0.05, neu1e gains
\* -0.05 * [0,1,0,0] and the tree node gains -0.05 * [1,0,0,0].
C6_UpdateInRange ==
  (kout.done /\ KIsHierarchicSoftmax
    /\ KDot >= -HS_MAX_EXP /\ KDot < HS_MAX_EXP /\ KIdx < kin.expLength)
  => /\ KUpdatedBy(Mul(FromInt(1 - kin.code) - kin.expTable[KIdx], kin.alpha))
     /\ kout.expRead = {KIdx}
     /\ kin = ScenarioIn =>
          /\ kout.neu1e = [x \in Idx(4) |-> IF x = 1 THEN -5 ELSE 0]
          /\ kout.row = [x \in Idx(4) |-> IF x = 0 THEN -5 ELSE IF x = 1 THEN 100 ELSE 0]

\* C6's case: the scenario has been run.
C6_Witness ==
  /\ kout.done /\ kin = ScenarioIn
  /\ kout.neu1e[1] = -5 /\ kout.row[0] = -5

\* The middle case of NegativeSampling with the bucket out of range.
KNegativeSkips ==
  ~(KDot > HS_MAX_EXP) /\ ~(KDot < -HS_MAX_EXP) /\ KIdx >= kin.expLength

\* The gradient NegativeSampling is to use, by the three cases on the dot
\* product.
KNegativeGradient ==
  IF KDot > HS_MAX_EXP THEN Mul(FromInt(kin.code - 1), kin.alpha)
  ELSE IF KDot < -HS_MAX_EXP THEN Mul(FromInt(kin.code), kin.alpha)
  ELSE Mul(FromInt(kin.code) - kin.expTable[KIdx], kin.alpha)

\* C7: NegativeSampling takes g = (code - 1) * alpha above +6.0, g = code *
\* alpha below -6.0 and g = (code - expTable[idx]) * alpha otherwise; it applies
\* the update in the two saturated cases and skips it, changing nothing, only
\* in the middle case with idx >= expLength.  Both paths take the same case for
\* every dot product, +6.0 and -6.0 included: the cooperative call leaves
\* what the sequential call leaves.
C7_ThreeCases ==
  (kout.done /\ KIsNegativeSampling) =>
     /\ IF KNegativeSkips THEN KNoUpdate ELSE KUpdatedBy(KNegativeGradient)
     /\ kout = Returned(NegativeSampling(kin.emb, kin.row, kin.expTable, kin.neu1e,
                          kin.vectorLength, kin.expLength, kin.code, kin.alpha))

\* C7's case: the cooperative call with a dot product of exactly +6.0.
C7_Witness ==
  /\ kout.done /\ kin.kernel = "NegativeSamplingCuda" /\ kin.blockDim = 2
  /\ KDot = HS_MAX_EXP
  /\ KNoUpdate

\* Further cases of C7 that are reached: exactly -6.0, above and below.
C7_WitnessLow ==
  /\ kout.done /\ KIsNegativeSampling /\ KDot = -HS_MAX_EXP /\ ~KNoUpdate

C7_WitnessAbove ==
  /\ kout.done /\ KIsNegativeSampling /\ KDot > HS_MAX_EXP /\ ~KNoUpdate

C7_WitnessBelow ==
  /\ kout.done /\ KIsNegativeSampling /\ KDot < -HS_MAX_EXP /\ kin.code = 1 /\ ~KNoUpdate


\* ---- the orchestrators, continued
\* a + k * b, elementwise.
PlusTimes(a, k, b) == [x \in DOMAIN a |-> a[x] + k * b[x]]

\* C8: in a SkipGram invocation no hierarchic softmax or negative sampling
\* round writes the center word's syn0 row (nor any other syn0 row): syn0 is
\* as the caller left it until the rounds are over, and from the final add
\* on the center word's row is its initial value plus neu1e, the other rows
\* still untouched.
C8_CenterRowWrittenOnce ==
  arg.op = "SkipGram" =>
    /\ seq.pc \in {"start", "hs", "ng", "final"} => seq.syn0 = arg.syn0
    /\ seq.pc \in {"free", "done"} =>
         seq.syn0 = [arg.syn0 EXCEPT ![arg.syn0Row] = PlusTimes(@, 1, seq.neu1e)]

\* C8's case: rounds of both kinds have updated neu1e, and the final add has
\* changed the center word's row.
C8_Witness ==
  /\ arg.op = "SkipGram" /\ seq.pc = "done"
  /\ arg.hsRounds > 0 /\ arg.ngRounds > 0
  /\ seq.neu1e # ZeroVec(arg.vectorLength)
  /\ seq.syn0 # arg.syn0

\* C9: CBOW with an empty context window divides by nothing, has neu1 equal
\* to the zero vector in every round it runs, and leaves every syn0 row
\* unchanged, whatever hsRounds and ngRounds are.
C9_EmptyWindow ==
  (arg.op = "CBOW" /\ arg.idxSyn0Length = 0) =>
    /\ seq.divisors = {}
    /\ seq.neu1 = ZeroVec(arg.vectorLength)
    /\ seq.syn0 = arg.syn0

\* C9's case: an invocation with an empty window has run rounds of both kinds
\* and is over.
C9_Witness ==
  /\ arg.op = "CBOW" /\ arg.idxSyn0Length = 0 /\ seq.pc = "done"
  /\ arg.hsRounds > 0 /\ arg.ngRounds > 0
  /\ Len(seq.calls) >= 2

\* How many of the first c entries of idxSyn0 name row w.
Listed(w, c) == Cardinality({i \in Idx(c) : arg.idxSyn0[i] = w})

\* How many entries of idxSyn0 the scatter loop has been through.
Scattered ==
  IF seq.pc \in {"free", "done"} THEN arg.idxSyn0Length
  ELSE IF seq.pc = "scatter" THEN seq.c
  ELSE 0

\* C10: CBOW writes no syn0 row before the scatter, and the scatter adds the
\* one accumulated neu1e into each row listed in idxSyn0, once per listing,
\* and into no other row: a row listed k times ends at its initial value
\* plus k times neu1e.
C10_ScatterToWindow ==
  arg.op = "CBOW" =>
    \A w \in Rows : seq.syn0[w] = PlusTimes(arg.syn0[w], Listed(w, Scattered), seq.neu1e)

\* C10's case: a window that lists one row twice and leaves another out, and
\* a neu1e that is not zero.
C10_Witness ==
  /\ arg.op = "CBOW" /\ seq.pc = "done"
  /\ seq.neu1e # ZeroVec(arg.vectorLength)
  /\ \E w \in Rows : Listed(w, arg.idxSyn0Length) = 2
  /\ \E w \in Rows : Listed(w, arg.idxSyn0Length) = 0 /\ seq.syn0[w] = arg.syn0[w]

\* The rounds of a run: for each kernel call, its loop, round, row and code.
Rounds(calls) ==
  [i \in DOMAIN calls |-> [kernel |-> calls[i].kernel, r |-> calls[i].r,
                           mat |-> calls[i].mat, row |-> calls[i].row,
                           code |-> calls[i].code]]

\* The cooperative invocation ended as the sequential one did.
SameAsSequential ==
  /\ cuda.next_random = seq.next_random
  /\ cuda.draws = seq.draws
  /\ Rounds(cuda.calls) = Rounds(seq.calls)
  /\ cuda.syn0 = seq.syn0
  /\ cuda.syn1 = seq.syn1
  /\ cuda.syn1Neg = seq.syn1Neg

\* C2: for the same inputs the cooperative invocation of SkipGram and of CBOW,
\* for any block index and any number of lanes, runs to its end as one block,
\* and ends with the random state, the draws, the sequence of rounds (rows
\* and codes) and the matrices syn0, syn1 and syn1Neg of the sequential
\* invocation.
C2_CooperativeAsSequential ==
  /\ cuda.pc # "diverged"
  /\ cuda.pc = "done" => SameAsSequential

\* ---- the random state
\* x * 25214903917 + 11 modulo 2^64.
LcgStep(x) == U64MulAdd(x, LcgMultiplier, 11)

\* The k draws that follow the random state x, for the invocation's negTable,
\* negTableLength and vocabSize.
RECURSIVE DrawsFrom(_, _)
DrawsFrom(x, k) ==
  IF k = 0 THEN <<>>
  ELSE <<DrawTarget(LcgStep(x), arg.negTable, arg.negTableLength, arg.vocabSize)>>
         \o DrawsFrom(LcgStep(x), k - 1)

\* C11: on the sequential paths the random state, once set from the seed,
\* changes only in a round r >= 1 of the negative sampling loop, by exactly
\* one step x * 25214903917 + 11 modulo 2^64 per draw, discarded draws
\* included; so the draws are the sequence the seed, negTable and vocabSize
\* determine, whatever the operation, the matrices and the other rounds are.
C11_OneStepPerDraw ==
  [][(Invoked /\ seq.pc # "start") =>
       /\ (seq'.next_random # seq.next_random \/ seq'.draws # seq.draws) =>
            /\ seq.pc = "ng" /\ seq.r >= 1 /\ seq.r <= arg.ngRounds
            /\ seq'.next_random = LcgStep(seq.next_random)
            /\ Len(seq'.draws) = Len(seq.draws) + 1
            /\ seq'.draws = DrawsFrom(ToU64(arg.seed), Len(seq'.draws))
       /\ (seq'.pc = "done" /\ arg.ngRounds > 0) => Len(seq'.draws) = arg.ngRounds]_vars

\* C11's case: a run is over whose first draw was discarded and whose random
\* state went on to a second draw.
C11_Witness ==
  /\ Invoked /\ seq.pc = "done" /\ Len(seq.draws) >= 2
  /\ seq.draws[1] = arg.ngStarter
  /\ seq.next_random = LcgStep(LcgStep(ToU64(arg.seed)))
  /\ seq.next_random # ToU64(arg.seed)

\* ---- one Dot or Axpy call
\* The sum of vecX[i] * vecY[i] over the indices below n.
RECURSIVE SumProducts(_, _, _)
SumProducts(x, y, n) ==
  IF n = 0 THEN 0 ELSE SumProducts(x, y, n - 1) + Mul(x[n - 1], y[n - 1])

\* How many times index x has been added to the shared dot.
TimesAdded(x) == Cardinality({i \in DOMAIN vec.added : vec.added[i] = x})

\* Some lane has left the barrier that follows the loop.
PastLoopBarrier == \E t \in DOMAIN vec.lane : vec.lane[t].at \in {"write", "done"}

\* C12: in the parallel Dot, for every number of lanes and every interleaving
\* of the lanes' atomic adds, no index of [0, n) is added to the shared dot
\* twice, every index has been added exactly once when a lane is past the
\* barrier, and what lane 0 stores in vecZ[0] is the sum over all n indices,
\* never a partial one; the call writes nothing but vecZ[0].  The sequential
\* Dot stores the same sum.
C12_DotComplete ==
  vec.op \in {"Dot", "DotCuda"} =>
    /\ vec.vecX = vec.x0 /\ vec.vecY = vec.y0 /\ vec.wrote \subseteq {"vecZ"}
    /\ \A i \in DOMAIN vec.added : vec.added[i] \in Idx(vec.n)
    /\ \A x \in Idx(vec.n) : TimesAdded(x) <= 1
    /\ (vec.op = "DotCuda" /\ PastLoopBarrier) => \A x \in Idx(vec.n) : TimesAdded(x) = 1
    /\ "vecZ" \in vec.wrote => vec.vecZ = SumProducts(vec.x0, vec.y0, vec.n)
    /\ vec.lane[0].at = "done" => "vecZ" \in vec.wrote

\* C12's case: two lanes with two indices each, lane 1 the first to add, and
\* the call over.
C12_Witness ==
  /\ vec.op = "DotCuda" /\ vec.blockDim = 2 /\ vec.n = 4
  /\ \A t \in DOMAIN vec.lane : vec.lane[t].at = "done"
  /\ vec.added[1] = 1
  /\ vec.vecZ = SumProducts(vec.x0, vec.y0, 4) /\ vec.vecZ # Junk

\* The index x has been stored by some lane.
IsStored(x) == \E i \in DOMAIN vec.stored : vec.stored[i][2] = x

\* C13: Axpy leaves vecY[i] = alpha * vecX[i] + (vecY[i] before the call) for
\* every i below n and leaves vecX unchanged; in the parallel Axpy index i is
\* stored by lane i mod blockDim only, and once only, and no lane is past the
\* closing barrier while a store of any lane is still to come.
C13_AxpyExact ==
  vec.op \in {"Axpy", "AxpyCuda"} =>
    /\ vec.vecX = vec.x0 /\ vec.wrote \subseteq {"vecY"} /\ vec.alpha \in VecAlphas
    /\ \A i \in DOMAIN vec.stored :
         /\ vec.stored[i][2] \in Idx(vec.n)
         /\ vec.stored[i][1] = vec.stored[i][2] % vec.blockDim
         /\ \A j \in DOMAIN vec.stored : vec.stored[j][2] = vec.stored[i][2] => j = i
    /\ \A x \in Idx(vec.n) :
         vec.vecY[x] = IF IsStored(x) THEN Mul(vec.alpha, vec.x0[x]) + vec.y0[x]
                       ELSE vec.y0[x]
    /\ (\E t \in DOMAIN vec.lane : vec.lane[t].at = "done") =>
         \A x \in Idx(vec.n) : IsStored(x)

\* C13's case: two lanes with two indices each, lane 1 the first to store,
\* and the call over.
C13_Witness ==
  /\ vec.op = "AxpyCuda" /\ vec.blockDim = 2 /\ vec.n = 4
  /\ \A t \in DOMAIN vec.lane : vec.lane[t].at = "done"
  /\ vec.stored[1] = <<1, 1>>
  /\ \A x \in Idx(4) : vec.vecY[x] # vec.y0[x]

\* ---- the lanes of the cooperative negative sampling loop
\* The round whose target, args[1] and code the shared locals hold: lane 0's
\* round once it has published, the round before while it has yet to.
PublishedRound == IF cuda.lane[0].at \in {"publish", "exit"} THEN cuda.lane[0].r - 1
                  ELSE cuda.lane[0].r

\* Lane t takes a step that reads the shared locals: the skip test on target
\* (not read in round 0, where r != 0 decides), or the kernel's entry on
\* args[1].
LaneReads(t) ==
  /\ cuda.pc = "ng"
  /\ \/ cuda.lane[t].at = "test" /\ cuda.lane[t].r # 0
     \/ cuda.lane[t].at = "enter"
  /\ cuda'.lane[t] # cuda.lane[t]

\* C14: in the cooperative negative sampling loops a barrier separates lane
\* 0's store of a round's target, args[1] and code from every read of them,
\* so a lane evaluates the skip test and enters the kernel call of its round
\* r only on the values lane 0 published for round r.
C14_ReadsOwnRound ==
  [][\A t \in Lanes : LaneReads(t) => PublishedRound = cuda.lane[t].r]_vars

\* C15: in every round of the cooperative negative sampling loops all lanes
\* take the same decision, to skip the round or to call the kernel, so they
\* pass the same barriers in the same order: no lane waits at a kernel
\* barrier of round r while another lane has gone past round r without that
\* call, and no lane waits at a barrier that another lane never reaches.
C15_SameDecision ==
  /\ cuda.pc # "diverged"
  /\ cuda.pc = "ng" =>
       /\ ~BarrierMismatch(cuda)
       /\ \A t, u \in Lanes :
            cuda.lane[t].at = "inside" => cuda.lane[u].r <= cuda.lane[t].r

\* ---- the draw
\* C16: for any positive vocabSize the sequential invocations run without a
\* fault: an invalid draw is replaced by next_random % (vocabSize - 1) + 1,
\* every row handed to NegativeSampling lies in [0, vocabSize), and negTable
\* is read at an index in [0, negTableLength) only.
C16_DrawInRange ==
  Invoked =>
    /\ seq.pc # "fault"
    /\ \A i \in DOMAIN seq.draws : seq.draws[i] \in Idx(arg.vocabSize)
    /\ \A i \in DOMAIN seq.calls :
         seq.calls[i].kernel = "NegativeSampling" => seq.calls[i].row \in Idx(arg.vocabSize)
    /\ seq.draws # <<>> =>
         U64Shr16Mod(seq.next_random, arg.negTableLength) \in Idx(arg.negTableLength)

C18_RunsToCompletion ==
  Invoked =>
    /\ seq.pc # "fault"
    /\ cuda.pc # "diverged"
    /\ (seq.pc = "done" /\ arg.ngRounds > 0) => seq.r = arg.ngRounds + 1
    /\ (cuda.pc \in {"final", "scatter", "done"} /\ arg.ngRounds > 0) =>
         \A t \in Lanes : cuda.lane[t].r = arg.ngRounds + 1

\* ---- the order of the kernel calls
\* The number of hierarchic softmax calls among the calls so far.
HsCalls == Cardinality({i \in DOMAIN seq.calls : seq.calls[i].kernel = "HierarchicSoftmax"})

\* C19: in a sequential SkipGram or CBOW invocation the hierarchic softmax
\* calls come first, one per round r = 0 .. hsRounds - 1 in this order, call r
\* on row idxSyn1[r] of syn1 with code codes[r]; the negative sampling calls
\* follow, the first one in round 0 on row ngStarter of syn1Neg with code 1,
\* every later one in a round r >= 1 with code 0 and in the order of the
\* rounds, so exactly one call has code 1 when ngRounds > 0, and none is made
\* when ngRounds = 0.
C19_CallOrder ==
  Invoked =>
    /\ HsCalls <= arg.hsRounds
    /\ seq.pc \notin {"start", "hs"} => HsCalls = arg.hsRounds
    /\ \A i \in DOMAIN seq.calls :
         IF i <= HsCalls
           THEN seq.calls[i] = [seq.calls[i] EXCEPT !.kernel = "HierarchicSoftmax",
                                                    !.r = i - 1, !.mat = "syn1",
                                                    !.row = arg.idxSyn1[i - 1],
                                                    !.code = arg.codes[i - 1]]
         ELSE IF i = HsCalls + 1
           THEN seq.calls[i] = [seq.calls[i] EXCEPT !.kernel = "NegativeSampling",
                                                    !.r = 0, !.mat = "syn1Neg",
                                                    !.row = arg.ngStarter, !.code = 1]
         ELSE /\ seq.calls[i].kernel = "NegativeSampling" /\ seq.calls[i].mat = "syn1Neg"
              /\ seq.calls[i].code = 0
              /\ seq.calls[i].r >= 1 /\ seq.calls[i].r > seq.calls[i - 1].r
              /\ seq.calls[i].row = seq.draws[seq.calls[i].r]
    /\ AfterRounds =>
         Cardinality({i \in DOMAIN seq.calls : seq.calls[i].kernel = "NegativeSampling"
                                                /\ seq.calls[i].code = 1})
           = IF arg.ngRounds > 0 THEN 1 ELSE 0

\* C19's case: a run is over that made two hierarchic softmax calls with
\* different codes and then three negative sampling calls.
C19_Witness ==
  /\ Invoked /\ seq.pc = "done" /\ arg.hsRounds = 2
  /\ arg.codes[0] # arg.codes[1] /\ arg.idxSyn1[0] # arg.idxSyn1[1]
  /\ Len(seq.calls) = 5
  /\ seq.calls[3].code = 1 /\ seq.calls[4].code = 0 /\ seq.calls[5].code = 0

\* ---- two invocations at once
\* Invocation k run from p to its end, on its own.
RECURSIVE RunToEnd(_, _)
RunToEnd(p, k) == IF p.l[k].pc = "done" THEN p ELSE RunToEnd(InvStep(p, k), k)

\* The matrices after invocation k1, then invocation k2, from the start.
OneAfterTheOther(k1, k2) ==
  LET p == RunToEnd(RunToEnd(PairStart(pair.arg[1], pair.arg[2]), k1), k2)
  IN  <<p.syn0, p.syn1, p.syn1Neg>>

BothDone == pair.on /\ \A k \in Threads : pair.l[k].pc = "done"

\* No row of syn1 and no row of syn1Neg was touched by both invocations.
DisjointRows ==
  /\ pair.l[1].rows1 \cap pair.l[2].rows1 = {}
  /\ pair.l[1].rowsNeg \cap pair.l[2].rowsNeg = {}

\* C20: two sequential SkipGram invocations on different center words that
\* touch disjoint rows of syn1 and of syn1Neg, run at once by two threads,
\* leave syn0, syn1 and syn1Neg as the two invocations run one after the
\* other do (in either order), whatever the interleaving of their steps; the
\* center row of an invocation is as the caller left it until the
\* invocation's final add, no other row of syn0 changes, and the neu1e of an
\* invocation that has not begun is not written by the other one.
C20_AsOneAfterTheOther ==
  pair.on =>
    /\ (BothDone /\ DisjointRows) =>
         /\ <<pair.syn0, pair.syn1, pair.syn1Neg>> = OneAfterTheOther(1, 2)
         /\ <<pair.syn0, pair.syn1, pair.syn1Neg>> = OneAfterTheOther(2, 1)
    /\ \A k \in Threads :
         pair.l[k].pc \notin {"free", "done"} =>
           pair.syn0[pair.arg[k].syn0Row] = pair.arg[k].syn0[pair.arg[k].syn0Row]
    /\ \A w \in DOMAIN pair.syn0 :
         (\A k \in Threads : w # pair.arg[k].syn0Row) => pair.syn0[w] = pair.arg[1].syn0[w]
    /\ \A k \in Threads :
         pair.l[k].pc = "start" =>
           pair.neu1e[k] = PairStart(pair.arg[1], pair.arg[2]).neu1e[k]

\* C20's case: both invocations are over, each made its hierarchic softmax
\* round and negative sampling calls on rows of its own, and each changed its
\* center row.
C20_Witness ==
  /\ BothDone /\ DisjointRows
  /\ \A k \in Threads :
       /\ pair.l[k].rows1 # {} /\ pair.l[k].rowsNeg # {}
       /\ pair.syn0[pair.arg[k].syn0Row] # pair.arg[k].syn0[pair.arg[k].syn0Row]

\* C21: when a sequential SkipGram or CBOW invocation has returned, every
\* scratch buffer it allocated (neu1e, neu1, the argument-pointer array, the
\* index-argument array) has been released, whichever rounds ran or were
\* skipped: no allocation outlives its invocation.
C21_AllReleased == (Invoked /\ seq.pc = "done") => seq.heap = {}


====
